---- MODULE Spec2Model ----
(***************************************************************************)
(* A model of the qubitcrypt hybrid KEM (src/kem/xwing.rs), of the key     *)
(* objects PrivateKey and PublicKey (src/asn1/private_key.rs,              *)
(* src/asn1/public_key.rs), of the composite public-key codec              *)
(* (src/asn1/composite_public_key.rs), of the enveloped-data builder and   *)
(* reader (src/cms/asn1/enveloped_data_content.rs), of the DSA registry    *)
(* and the ML-DSA manager (src/dsa/common/dsa_trait.rs,                    *)
(* src/dsa/ml_dsa.rs) and of the certificate validity period               *)
(* (src/asn1/cert_builder.rs).  Each component has its own specification   *)
(* over the same variables.                                                *)
(*                                                                         *)
(* Byte strings of cryptographic material are modelled symbolically: a     *)
(* byte string is a sequence of segments, each segment being a range       *)
(* [off, off+n) of the output of one primitive call (src).  Concatenation  *)
(* and slicing are computed on that representation, so that lengths,       *)
(* split points and argument orders are all observable.                    *)
(***************************************************************************)
EXTENDS Integers, Sequences, FiniteSets, TLC

VARIABLES kp, enc, last, ck, derIn, derOut, bld, env

vars == <<kp, enc, last, ck, derIn, derOut, bld, env>>

-----------------------------------------------------------------------------
(* Bounds of the model *)

\* number of distinct 32-byte seeds the random sources can return
NumSeeds == 2
\* number of distinct random tapes an encapsulation can draw from
NumCoins == 2

Seeds == 1..NumSeeds
Coins == 1..NumCoins

-----------------------------------------------------------------------------
(* Sizes fixed by the program *)

XWING_PK_LEN == 1216
XWING_CT_LEN == 1120
MLKEM_PK_LEN == 1184
MLKEM_CT_LEN == 1088
MLKEM_SK_LEN == 2400
SEED_LEN == 32
EXPANDED_LEN == 96
X25519_LEN == 32
SS_LEN == 32
LABEL_LEN == 6

-----------------------------------------------------------------------------
(* Symbolic byte strings *)

Seg(src, off, n) == [src |-> src, off |-> off, n |-> n]

\* the n bytes that the primitive call src returned
Atom(src, n) == IF n = 0 THEN <<>> ELSE <<Seg(src, 0, n)>>

RECURSIVE ByteLen(_)
ByteLen(b) == IF b = <<>> THEN 0 ELSE Head(b).n + ByteLen(Tail(b))

RECURSIVE Drop(_, _)
Drop(b, k) ==
    IF k = 0 \/ b = <<>> THEN b
    ELSE IF Head(b).n <= k THEN Drop(Tail(b), k - Head(b).n)
    ELSE <<Seg(Head(b).src, Head(b).off + k, Head(b).n - k)>> \o Tail(b)

RECURSIVE Take(_, _)
Take(b, k) ==
    IF k = 0 \/ b = <<>> THEN <<>>
    ELSE IF Head(b).n <= k THEN <<Head(b)>> \o Take(Tail(b), k - Head(b).n)
    ELSE <<Seg(Head(b).src, Head(b).off, k)>>

\* b[from..to]
Slice(b, from, to) == Take(Drop(b, from), to - from)

\* [a, b].concat() / extend_from_slice
Concat(a, b) ==
    IF a = <<>> THEN b
    ELSE IF b = <<>> THEN a
    ELSE LET l == a[Len(a)]
             f == b[1]
         IN  IF l.src = f.src /\ l.off + l.n = f.off
             THEN SubSeq(a, 1, Len(a) - 1) \o <<Seg(l.src, l.off, l.n + f.n)>> \o Tail(b)
             ELSE a \o b

\* b is exactly the whole n-byte output of a primitive call tagged tag
IsWhole(b, tag, n) ==
    /\ Len(b) = 1
    /\ b[1].off = 0
    /\ b[1].n = n
    /\ b[1].src[1] = tag

-----------------------------------------------------------------------------
(* Results *)

Ok(v) == [ok |-> TRUE, val |-> v, err |-> ""]
Err(e) == [ok |-> FALSE, val |-> <<>>, err |-> e]

\* one call of a primitive: its name, its arguments and what it returned
Call(fn, args, ret) == [fn |-> fn, args |-> args, ret |-> ret]

\* the values of kp, enc and last before any call
NoKey == [has |-> FALSE, pk |-> <<>>, sk |-> <<>>, calls |-> <<>>]
NoEnc == [has |-> FALSE, pk |-> <<>>, ss |-> <<>>, ct |-> <<>>, calls |-> <<>>]
NoCall == [op |-> "none", arg |-> <<>>, out |-> Err(""), calls |-> <<>>]
\* the values of bld and env before a builder is asked for
NoBuilder == [phase |-> "none"]
NoEnvelope ==
    [has |-> FALSE, how |-> "none", der |-> <<>>, bytes |-> <<>>,
     recipients |-> 0, attributes |-> <<>>]

-----------------------------------------------------------------------------
(* The primitives XWingKemManager is built from.  They are consumed        *)
(* through the Kem / Kdf capability contracts; what is modelled is that    *)
(* contract: fixed output sizes, determinism, and decap(encap) agreement.  *)

\* a 32-byte output of a random source
RandBytes(i) == Atom(<<"rand", i>>, SEED_LEN)

\* Sha3Kdf(Shake128).derive(ikm, &[], n, None)
ShakeDerive(ikm, n) == Ok(Atom(<<"shake128", ikm>>, n))

\* sha3::Sha3_256 over info
Sha3_256(info) == Atom(<<"sha3_256", info>>, SS_LEN)

\* MlKemManager(MlKem768).key_gen_deterministic(d, z) -> (pk, sk)
MlKemKeyGenDeterministic(d, z) ==
    Ok(<<Atom(<<"mlkem768_ek", d, z>>, MLKEM_PK_LEN),
         Atom(<<"mlkem768_dk", d, z>>, MLKEM_SK_LEN)>>)

\* MlKemManager(MlKem768).encap(pk) -> (ss, ct), coin being the random tape
MlKemEncap(pk_m, coin) ==
    IF ByteLen(pk_m) # MLKEM_PK_LEN THEN Err("InvalidPublicKey")
    ELSE Ok(<<Atom(<<"mlkem768_ss", pk_m, coin>>, SS_LEN),
              Atom(<<"mlkem768_ct", pk_m, coin>>, MLKEM_CT_LEN)>>)

\* MlKemManager(MlKem768).decap(sk, ct) -> ss; a ciphertext that was not made
\* for sk's public key decapsulates to the implicit-rejection secret
MlKemDecap(sk_m, ct_m) ==
    IF ByteLen(sk_m) # MLKEM_SK_LEN THEN Err("InvalidPrivateKey")
    ELSE IF ByteLen(ct_m) # MLKEM_CT_LEN THEN Err("InvalidCiphertext")
    ELSE IF /\ IsWhole(ct_m, "mlkem768_ct", MLKEM_CT_LEN)
            /\ IsWhole(sk_m, "mlkem768_dk", MLKEM_SK_LEN)
            /\ ct_m[1].src[2] =
                 Atom(<<"mlkem768_ek", sk_m[1].src[2], sk_m[1].src[3]>>, MLKEM_PK_LEN)
         THEN Ok(Atom(<<"mlkem768_ss", ct_m[1].src[2], ct_m[1].src[3]>>, SS_LEN))
         ELSE Ok(Atom(<<"mlkem768_rej", sk_m, ct_m>>, SS_LEN))

\* the X25519 public key of the private scalar sk
X25519Pk(sk) == Atom(<<"x25519_pk", sk>>, X25519_LEN)

\* a point of small order: the key agreement with it gives the all-zero
\* secret, which the provider refuses
LowOrderPoint == Atom(<<"x25519_low_order", 0>>, X25519_LEN)

\* openssl_utils::get_pk_from_sk_pkey_based(sk, Id::X25519)
GetPkFromSk(sk) ==
    IF ByteLen(sk) # X25519_LEN THEN Err("InvalidPrivateKey") ELSE Ok(X25519Pk(sk))

\* the X25519 key agreement of the scalar sk with the point pk
X25519Derive(sk, pk) ==
    IF ByteLen(sk) # X25519_LEN \/ ByteLen(pk) # X25519_LEN THEN Err("length")
    ELSE IF pk = LowOrderPoint THEN Err("derive")
    ELSE IF IsWhole(pk, "x25519_pk", X25519_LEN)
         THEN Ok(Atom(<<"x25519_dh", {sk, pk[1].src[2]}>>, SS_LEN))
         ELSE Ok(Atom(<<"x25519_raw", sk, pk>>, SS_LEN))

\* EcKemManager(X25519).encap(pk) -> (ss, ct), the ephemeral scalar drawn from
\* the random tape coin
EcKemEncap(pk_x, coin) ==
    LET esk == Atom(<<"coin_x", coin>>, X25519_LEN)
        r == X25519Derive(esk, pk_x)
    IN  IF r.ok THEN Ok(<<r.val, X25519Pk(esk)>>) ELSE Err("InvalidPublicKey")

\* EcKemManager(X25519).decap(sk, ct) -> ss
EcKemDecap(sk_x, ct_x) ==
    LET r == X25519Derive(sk_x, ct_x)
    IN  IF r.ok THEN Ok(r.val) ELSE Err("InvalidCiphertext")

-----------------------------------------------------------------------------
(* XWingKemManager *)

\* b"\\.//^\\"
XWingLabel == Atom(<<"xwing_label", 0>>, LABEL_LEN)

Out(res, calls) == [res |-> res, calls |-> calls]

\* expand_decapsulation_key: the places of d, z and sk_x in the expanded seed
ExpandLayout_Swapped(expanded) ==
    [d |-> Slice(expanded, 32, 64),
     z |-> Slice(expanded, 0, 32),
     sk_x |-> Slice(expanded, 64, 96)]

ExpandLayout(expanded) ==
    [d |-> Slice(expanded, 0, 32),
     z |-> Slice(expanded, 32, 64),
     sk_x |-> Slice(expanded, 64, 96)]

\* XWingKemManager::expand_decapsulation_key
ExpandDecapsulationKey(sk) ==
    LET e == ShakeDerive(sk, EXPANDED_LEN)
        c1 == <<Call("shake.derive", <<sk>>, e)>>
    IN  IF ~e.ok THEN Out(Err(e.err), c1)
        ELSE
        LET lay == ExpandLayout(e.val)
            k == MlKemKeyGenDeterministic(lay.d, lay.z)
            c2 == Append(c1, Call("ml_kem.key_gen_deterministic", <<lay.d, lay.z>>, k))
        IN  IF ~k.ok THEN Out(Err(k.err), c2)
            ELSE
            LET p == GetPkFromSk(lay.sk_x)
                c3 == Append(c2, Call("get_pk_from_sk", <<lay.sk_x>>, p))
            IN  IF ~p.ok THEN Out(Err("InvalidPrivateKey"), c3)
                ELSE Out(Ok([sk_m |-> k.val[2], sk_x |-> lay.sk_x,
                             pk_m |-> k.val[1], pk_x |-> p.val]), c3)

Combiner_SwappedSecrets(ss_m, ss_x, ct_x, pk_x) ==
    LET info == Concat(Concat(Concat(Concat(XWingLabel, ss_x), ss_m), ct_x), pk_x)
    IN  Ok(Sha3_256(info))

\* XWingKemManager::combiner
Combiner(ss_m, ss_x, ct_x, pk_x) ==
    LET info == Concat(Concat(Concat(Concat(XWingLabel, ss_m), ss_x), ct_x), pk_x)
    IN  Ok(Sha3_256(info))

XWingPublicKey_LatticeOnly(pk_m, pk_x) == pk_m

\* key_gen / key_gen_with_rng: [pk_m.as_slice(), pk_x.as_slice()].concat()
XWingPublicKey(pk_m, pk_x) == Concat(pk_m, pk_x)

\* XWingKemManager::key_gen_with_rng, seed being what rng.fill_bytes wrote
XWingKeyGenWithRng(seed) ==
    LET sk == seed
        c0 == <<Call("rng.fill_bytes", <<>>, Ok(seed))>>
        x == ExpandDecapsulationKey(sk)
    IN  IF ~x.res.ok THEN Out(Err(x.res.err), c0 \o x.calls)
        ELSE LET pk == XWingPublicKey(x.res.val.pk_m, x.res.val.pk_x)
             IN  Out(Ok(<<pk, sk>>), c0 \o x.calls)

\* XWingKemManager::key_gen, rnd being the outcome of openssl::rand::rand_bytes
XWingKeyGen(rnd) ==
    LET c0 == <<Call("rand_bytes", <<>>, rnd)>>
    IN  IF ~rnd.ok THEN Out(Err("KeyPairGenerationFailed"), c0)
        ELSE
        LET sk == rnd.val
            x == ExpandDecapsulationKey(sk)
        IN  IF ~x.res.ok THEN Out(Err(x.res.err), c0 \o x.calls)
            ELSE LET pk == XWingPublicKey(x.res.val.pk_m, x.res.val.pk_x)
                 IN  Out(Ok(<<pk, sk>>), c0 \o x.calls)

EncapPkLenOk_AtLeast(pk) == ByteLen(pk) >= XWING_PK_LEN

\* encap: the guard pk.len() != 1216
EncapPkLenOk(pk) == ByteLen(pk) = XWING_PK_LEN

\* XWingKemManager::encap
XWingEncap(pk, coin) ==
    IF ~EncapPkLenOk(pk) THEN Out(Err("InvalidPublicKey"), <<>>)
    ELSE
    LET pk_m == Slice(pk, 0, 1184)
        pk_x == Slice(pk, 1184, 1216)
        x == EcKemEncap(pk_x, coin)
        c1 == <<Call("ec_kem.encap", <<pk_x>>, x)>>
    IN  IF ~x.ok THEN Out(Err(x.err), c1)
        ELSE
        LET ss_x == x.val[1]
            ct_x == x.val[2]
            m == MlKemEncap(pk_m, coin)
            c2 == Append(c1, Call("ml_kem.encap", <<pk_m>>, m))
        IN  IF ~m.ok THEN Out(Err(m.err), c2)
            ELSE
            LET ss_m == m.val[1]
                ct_m == m.val[2]
                s == Combiner(ss_m, ss_x, ct_x, pk_x)
                c3 == Append(c2, Call("combiner", <<ss_m, ss_x, ct_x, pk_x>>, s))
            IN  IF ~s.ok THEN Out(Err(s.err), c3)
                ELSE LET ss == s.val
                         ct == Concat(ct_m, ct_x)
                     IN  Out(Ok(<<ss, ct>>), c3)

CtSplit_ClassicalFirst(ct) ==
    [ct_m |-> Slice(ct, 32, 1120), ct_x |-> Slice(ct, 0, 32)]

\* decap: ct_m = &ct[0..1088], ct_x = &ct[1088..1120]
CtSplit(ct) ==
    [ct_m |-> Slice(ct, 0, 1088), ct_x |-> Slice(ct, 1088, 1120)]

\* XWingKemManager::decap
XWingDecap(sk, ct) ==
    LET x == ExpandDecapsulationKey(sk)
    IN  IF ~x.res.ok THEN Out(Err(x.res.err), x.calls)
        ELSE IF ByteLen(ct) # XWING_CT_LEN THEN Out(Err("InvalidCiphertext"), x.calls)
        ELSE
        LET k == x.res.val
            ct_m == CtSplit(ct).ct_m
            ct_x == CtSplit(ct).ct_x
            m == MlKemDecap(k.sk_m, ct_m)
            c1 == Append(x.calls, Call("ml_kem.decap", <<k.sk_m, ct_m>>, m))
        IN  IF ~m.ok THEN Out(Err(m.err), c1)
            ELSE
            LET ss_m == m.val
                e == EcKemDecap(k.sk_x, ct_x)
                c2 == Append(c1, Call("ec_kem.decap", <<k.sk_x, ct_x>>, e))
            IN  IF ~e.ok THEN Out(Err(e.err), c2)
                ELSE
                LET ss_x == e.val
                    s == Combiner(ss_m, ss_x, ct_x, k.pk_x)
                    c3 == Append(c2, Call("combiner", <<ss_m, ss_x, ct_x, k.pk_x>>, s))
                IN  IF ~s.ok THEN Out(Err(s.err), c3) ELSE Out(Ok(s.val), c3)

-----------------------------------------------------------------------------
(* DER, as the der crate reads and writes it.  Here byte strings are       *)
(* sequences of numbers 0..255.                                            *)

TAG_SEQUENCE == 48
TAG_BIT_STRING == 3
TAG_OCTET_STRING == TAG_BIT_STRING + 1
MAX_UNUSED_BITS == 7

\* der::Length, encoded: short form below 128, else the shortest long form
EncodeLength(n) ==
    IF n < 128 THEN <<n>>
    ELSE IF n < 256 THEN <<129, n>>
    ELSE IF n < 65536 THEN <<130, n \div 256, n % 256>>
    ELSE <<131, n \div 65536, (n \div 256) % 256, n % 256>>

RECURSIVE BigEndian(_)
BigEndian(d) ==
    IF d = <<>> THEN 0 ELSE BigEndian(SubSeq(d, 1, Len(d) - 1)) * 256 + d[Len(d)]

NoLength == [ok |-> FALSE, len |-> 0, used |-> 0]

\* der::Length::decode at the head of d: the length and the bytes it took;
\* the indefinite form and every encoding that is not the shortest fail
DecodeLength(d) ==
    IF d = <<>> THEN NoLength
    ELSE IF d[1] < 128 THEN [ok |-> TRUE, len |-> d[1], used |-> 1]
    ELSE LET k == d[1] - 128
         IN  IF k = 0 \/ k > 4 \/ Len(d) < 1 + k THEN NoLength
             ELSE LET v == BigEndian(SubSeq(d, 2, 1 + k))
                  IN  IF EncodeLength(v) # SubSeq(d, 1, 1 + k) THEN NoLength
                      ELSE [ok |-> TRUE, len |-> v, used |-> 1 + k]

\* tag, length and value of one element
EncodeTlv(tag, value) == <<tag>> \o EncodeLength(Len(value)) \o value

NoTlv == [ok |-> FALSE, value |-> <<>>, rest |-> <<>>]

\* Header::decode, tag.assert_eq(tag) and the nested read of the value at the
\* head of d: the value and the bytes after it
DecodeTlv(tag, d) ==
    IF d = <<>> \/ d[1] # tag THEN NoTlv
    ELSE LET l == DecodeLength(Tail(d))
             body == SubSeq(d, 2 + l.used, Len(d))
         IN  IF ~l.ok \/ Len(body) < l.len THEN NoTlv
             ELSE [ok |-> TRUE,
                   value |-> SubSeq(body, 1, l.len),
                   rest |-> SubSeq(body, l.len + 1, Len(body))]

\* a BitString value
BitStringOf(unused, bytes) == [ok |-> TRUE, unused |-> unused, bytes |-> bytes]
NoBitString == [ok |-> FALSE, unused |-> 0, bytes |-> <<>>]

\* BitString::new(unused_bits, bytes)
BitStringNew(unused, bytes) ==
    IF unused > MAX_UNUSED_BITS \/ (unused # 0 /\ bytes = <<>>) THEN NoBitString
    ELSE BitStringOf(unused, bytes)

\* BitString::as_bytes: the bytes when no bit is unused
AsBytes(bs) == IF bs.unused = 0 THEN Ok(bs.bytes) ELSE Err("None")

\* Encode for BitString
EncodeBitString(bs) == EncodeTlv(TAG_BIT_STRING, <<bs.unused>> \o bs.bytes)

\* Decode for BitString at the head of d: the bit string and the bytes after it
DecodeBitString(d) ==
    LET t == DecodeTlv(TAG_BIT_STRING, d)
    IN  IF ~t.ok \/ t.value = <<>> THEN [bs |-> NoBitString, rest |-> <<>>]
        ELSE [bs |-> BitStringNew(t.value[1], Tail(t.value)), rest |-> t.rest]

-----------------------------------------------------------------------------
(* CompositePublicKey (src/asn1/composite_public_key.rs) *)

\* CompositePublicKey::new
CompositePublicKeyNew(oid, pq_pk, trad_pk) ==
    [oid |-> oid, pq_pk |-> pq_pk, trad_pk |-> trad_pk]

CompositeSigKemPublicKeyToDer_TradFirst(c) ==
    Ok(EncodeTlv(TAG_SEQUENCE, EncodeBitString(c.trad_pk) \o EncodeBitString(c.pq_pk)))

\* #[derive(Sequence)] CompositeSigKemPublicKey: Encode::to_der
CompositeSigKemPublicKeyToDer(c) ==
    Ok(EncodeTlv(TAG_SEQUENCE, EncodeBitString(c.pq_pk) \o EncodeBitString(c.trad_pk)))

\* #[derive(Sequence)] CompositeSigKemPublicKey: Decode::from_der
CompositeSigKemPublicKeyFromDer(der) ==
    LET t == DecodeTlv(TAG_SEQUENCE, der)
    IN  IF ~t.ok \/ t.rest # <<>> THEN Err("der")
        ELSE LET e1 == DecodeBitString(t.value)
             IN  IF ~e1.bs.ok THEN Err("der")
                 ELSE LET e2 == DecodeBitString(e1.rest)
                      IN  IF ~e2.bs.ok \/ e2.rest # <<>> THEN Err("der")
                          ELSE Ok([pq_pk |-> e1.bs, trad_pk |-> e2.bs])

\* CompositePublicKey::to_der
ToDer(key) ==
    LET pq == BitStringNew(0, key.pq_pk)
        trad == BitStringNew(0, key.trad_pk)
    IN  IF ~pq.ok \/ ~trad.ok THEN Err("InvalidPublicKey")
        ELSE LET d == CompositeSigKemPublicKeyToDer([pq_pk |-> pq, trad_pk |-> trad])
             IN  IF ~d.ok THEN Err("InvalidPublicKey") ELSE Ok(d.val)

ComponentBytes_Raw(bs) == Ok(bs.bytes)

\* from_der: comp_pk.<component>.as_bytes()
ComponentBytes(bs) == AsBytes(bs)

\* CompositePublicKey::from_der
FromDer(oid, der) ==
    LET c == CompositeSigKemPublicKeyFromDer(der)
    IN  IF ~c.ok THEN Err("InvalidPublicKey")
        ELSE LET pq == ComponentBytes(c.val.pq_pk)
             IN  IF ~pq.ok THEN Err("InvalidPublicKey")
                 ELSE LET trad == ComponentBytes(c.val.trad_pk)
                      IN  IF ~trad.ok THEN Err("InvalidPublicKey")
                          ELSE Ok(CompositePublicKeyNew(oid, pq.val, trad.val))

-----------------------------------------------------------------------------
(* The state machine of the codec: a caller that encodes composite keys    *)
(* and hands byte strings, encodings or not, to from_der.                  *)
(*   ck      the composite key built by new, if the caller built one       *)
(*   derIn   the byte string at hand and how it was made                   *)
(*   derOut  the last from_der call: its arguments and its result          *)

\* longest component enumerated byte by byte
MaxComponentLen == 2
\* longest byte string enumerated byte by byte as from_der input
MaxRawLen == 3

\* the byte values components are made of: one of them is a tag
ComponentAlphabet == {0, TAG_BIT_STRING}
\* the byte values raw inputs are made of
RawAlphabet == {0, 1, TAG_BIT_STRING, TAG_SEQUENCE}

Repeat(b, n) == [i \in 1..n |-> b]

SeqsUpTo(S, n) == UNION {[1..k -> S] : k \in 0..n}

\* components: all short ones, and ones around the length where the bit
\* string's and the sequence's length turn to the long form
Components ==
    SeqsUpTo(ComponentAlphabet, MaxComponentLen)
        \cup {Repeat(TAG_BIT_STRING, n) : n \in {60, 61, 126, 127}}

CompositeOids == {"oid:MlDsa44-Ed25519", "oid:MlKem768-X25519"}

NoComposite == [has |-> FALSE, key |-> CompositePublicKeyNew("", <<>>, <<>>)]
NoInput == [how |-> "none", bytes |-> <<>>]
NoDecode == [called |-> FALSE, oid |-> "", der |-> <<>>, how |-> "none", res |-> Err("")]

\* the unused-bits counts a crafted bit string may carry
UnusedCounts == {1, MAX_UNUSED_BITS, MAX_UNUSED_BITS + 1}

\* a sequence of the given elements under the given tag
Crafted(tag, elements) ==
    EncodeTlv(tag, IF elements = <<>> THEN <<>>
                   ELSE IF Len(elements) = 1 THEN elements[1]
                   ELSE IF Len(elements) = 2 THEN elements[1] \o elements[2]
                   ELSE elements[1] \o elements[2] \o elements[3])

\* to_der on the key ck
EncodeKey ==
    /\ ck.has
    /\ derIn.how = "none"
    /\ LET d == ToDer(ck.key)
       IN  derIn' = IF d.ok THEN [how |-> "to_der", bytes |-> d.val]
                    ELSE [how |-> "to_der failed", bytes |-> <<>>]
    /\ UNCHANGED <<kp, enc, last, ck, derOut, bld, env>>

\* the caller makes, from the components of ck, a byte string that is not
\* the encoding of a composite key
Tamper ==
    /\ ck.has
    /\ derIn.how = "none"
    /\ LET a == EncodeBitString(BitStringOf(0, ck.key.pq_pk))
           b == EncodeBitString(BitStringOf(0, ck.key.trad_pk))
           good == Crafted(TAG_SEQUENCE, <<a, b>>)
       IN  \/ \E x \in RawAlphabet :
                derIn' = [how |-> "trailing data", bytes |-> Append(good, x)]
           \/ derIn' = [how |-> "truncated", bytes |-> SubSeq(good, 1, Len(good) - 1)]
           \/ \E els \in {<<>>, <<a>>, <<b>>} :
                derIn' = [how |-> "fewer elements", bytes |-> Crafted(TAG_SEQUENCE, els)]
           \/ \E c \in {a, b} :
                derIn' = [how |-> "more elements",
                          bytes |-> Crafted(TAG_SEQUENCE, <<a, b, c>>)]
           \/ \E i \in 1..2 :
                LET o == EncodeTlv(TAG_OCTET_STRING,
                                   IF i = 1 THEN ck.key.pq_pk ELSE ck.key.trad_pk)
                IN  derIn' = [how |-> "not a bit string",
                              bytes |-> Crafted(TAG_SEQUENCE,
                                                IF i = 1 THEN <<o, b>> ELSE <<a, o>>)]
           \/ \E i \in 1..2, u \in UnusedCounts :
                LET e == EncodeBitString(BitStringOf(u,
                            IF i = 1 THEN ck.key.pq_pk ELSE ck.key.trad_pk))
                IN  derIn' = [how |-> "unused bits",
                              bytes |-> Crafted(TAG_SEQUENCE,
                                                IF i = 1 THEN <<e, b>> ELSE <<a, e>>)]
           \/ derIn' = [how |-> "not a sequence",
                        bytes |-> Crafted(TAG_OCTET_STRING, <<a, b>>)]
           \/ derIn' = [how |-> "two sequences", bytes |-> good \o good]
           \/ /\ Len(a \o b) < 128
              /\ derIn' = [how |-> "length not minimal",
                           bytes |-> <<TAG_SEQUENCE, 129, Len(a \o b)>> \o a \o b]
    /\ UNCHANGED <<kp, enc, last, ck, derOut, bld, env>>

\* the caller takes any short byte string
RawInput ==
    /\ ~ck.has
    /\ derIn.how = "none"
    /\ \E d \in SeqsUpTo(RawAlphabet, MaxRawLen) : derIn' = [how |-> "raw", bytes |-> d]
    /\ UNCHANGED <<kp, enc, last, ck, derOut, bld, env>>

\* CompositePublicKey::from_der(oid, bytes at hand)
DecodeKey ==
    /\ derIn.how # "none"
    /\ ~derOut.called
    /\ \E oid \in CompositeOids :
        derOut' = [called |-> TRUE, oid |-> oid, der |-> derIn.bytes, how |-> derIn.how,
                   res |-> FromDer(oid, derIn.bytes)]
    /\ UNCHANGED <<kp, enc, last, ck, derIn, bld, env>>

\* the composite keys new(oid, a, b) can build
CompositeKeys ==
    {CompositePublicKeyNew(oid, a, b) :
        oid \in CompositeOids, a \in Components, b \in Components}

InitCodec ==
    /\ kp = NoKey
    /\ enc = NoEnc
    /\ last = NoCall
    /\ ck \in {NoComposite} \cup {[has |-> TRUE, key |-> k] : k \in CompositeKeys}
    /\ derIn = NoInput
    /\ derOut = NoDecode
    /\ bld = NoBuilder
    /\ env = NoEnvelope

NextCodec == EncodeKey \/ Tamper \/ RawInput \/ DecodeKey

SpecCodec == InitCodec /\ [][NextCodec]_vars

-----------------------------------------------------------------------------
(* PublicKey (src/asn1/public_key.rs), the KEM side *)

\* object identifiers, by the name of the algorithm they are registered for
OID_XWING == "oid:XWing"
OID_MLDSA44 == "oid:MlDsa44"
OID_UNKNOWN == "oid:unregistered"

Oids == {OID_XWING, OID_MLDSA44, OID_UNKNOWN}

\* asn_util::is_kem_oid: is this the OID of a registered KEM
is_kem_oid(oid) == oid = OID_XWING

\* KemManager::new_from_oid(oid) followed by encap on the instance
KemManagerEncap(oid, pk, coin) ==
    IF oid = OID_XWING THEN XWingEncap(pk, coin)
    ELSE Out(Err("InvalidOid"), <<>>)

\* PublicKey::encap
PublicKeyEncap(oid, key, coin) ==
    IF ~is_kem_oid(oid) THEN Out(Err("UnsupportedOperation"), <<>>)
    ELSE
    LET r == KemManagerEncap(oid, key, coin)
    IN  IF ~r.res.ok THEN Out(Err(r.res.err), r.calls)
        ELSE LET ct == r.res.val[1]
                 ss == r.res.val[2]
             IN  Out(Ok(<<ct, ss>>), r.calls)

-----------------------------------------------------------------------------
(* The state machine of the hybrid KEM: a caller that generates keys,      *)
(* encapsulates to public keys and decapsulates ciphertexts, well formed   *)
(* or not.                                                                 *)
(*   kp    the key pair most recently generated                            *)
(*   enc   the most recent successful encapsulation and the key it was for *)
(*   last  the last call: its arguments, its result, the primitives it ran *)

Done(op, arg, o) == [op |-> op, arg |-> arg, out |-> o.res, calls |-> o.calls]

\* n bytes chosen by the caller, the output of no primitive
Junk(n) == Atom(<<"junk", 0>>, n)

\* the public keys a caller may hand to encap
PkInputs ==
    {<<>>, Junk(XWING_PK_LEN), Junk(XWING_PK_LEN - 1)}
    \cup (IF kp.has
          THEN {kp.pk,
                Slice(kp.pk, 0, XWING_PK_LEN - 1),
                Concat(kp.pk, Junk(1)),
                Slice(kp.pk, 0, MLKEM_PK_LEN),
                Concat(Slice(kp.pk, 0, MLKEM_PK_LEN), LowOrderPoint)}
          ELSE {})

\* the private keys a caller may hand to decap
SkInputs ==
    {<<>>, Junk(SEED_LEN - 1)} \cup (IF kp.has THEN {kp.sk} ELSE {})

\* the key bytes a PublicKey object may hold
KeyInputs == {Junk(XWING_PK_LEN - 1)} \cup (IF kp.has THEN {kp.pk} ELSE {})

\* the ciphertexts a caller may hand to decap
CtInputs ==
    {<<>>, Junk(XWING_CT_LEN), Junk(XWING_CT_LEN + 1)}
    \cup (IF enc.has
          THEN {enc.ct,
                Slice(enc.ct, 0, XWING_CT_LEN - 1),
                Concat(enc.ct, Junk(1)),
                Slice(enc.ct, 0, MLKEM_CT_LEN),
                Concat(Slice(enc.ct, 0, MLKEM_CT_LEN), LowOrderPoint),
                Concat(Slice(enc.ct, 0, MLKEM_CT_LEN), X25519Pk(Junk(X25519_LEN))),
                Concat(Junk(MLKEM_CT_LEN), Slice(enc.ct, MLKEM_CT_LEN, XWING_CT_LEN))}
          ELSE {})

KeyOf(o) ==
    IF o.res.ok
    THEN [has |-> TRUE, pk |-> o.res.val[1], sk |-> o.res.val[2], calls |-> o.calls]
    ELSE kp

EncOf(pk, o) ==
    IF o.res.ok
    THEN [has |-> TRUE, pk |-> pk, ss |-> o.res.val[1], ct |-> o.res.val[2],
          calls |-> o.calls]
    ELSE enc

KeyGen ==
    \E rnd \in {Ok(RandBytes(i)) : i \in Seeds} \cup {Err("rand_bytes")} :
        LET o == XWingKeyGen(rnd)
        IN  /\ kp' = KeyOf(o)
            /\ last' = Done("key_gen", <<>>, o)
            /\ UNCHANGED <<enc, ck, derIn, derOut, bld, env>>

KeyGenWithRng ==
    \E i \in Seeds :
        LET o == XWingKeyGenWithRng(RandBytes(i))
        IN  /\ kp' = KeyOf(o)
            /\ last' = Done("key_gen_with_rng", <<>>, o)
            /\ UNCHANGED <<enc, ck, derIn, derOut, bld, env>>

Encap ==
    \E pk \in PkInputs, c \in Coins :
        LET o == XWingEncap(pk, c)
        IN  /\ enc' = EncOf(pk, o)
            /\ last' = Done("encap", <<pk>>, o)
            /\ UNCHANGED <<kp, ck, derIn, derOut, bld, env>>

PkEncap ==
    \E oid \in Oids, pk \in KeyInputs, c \in Coins :
        LET o == PublicKeyEncap(oid, pk, c)
        IN  /\ enc' = EncOf(pk, o)
            /\ last' = Done("PublicKey.encap", <<oid, pk>>, o)
            /\ UNCHANGED <<kp, ck, derIn, derOut, bld, env>>

Decap ==
    \E sk \in SkInputs, ct \in CtInputs :
        LET o == XWingDecap(sk, ct)
        IN  /\ last' = Done("decap", <<sk, ct>>, o)
            /\ UNCHANGED <<kp, enc, ck, derIn, derOut, bld, env>>

InitXWing ==
    /\ kp = NoKey
    /\ enc = NoEnc
    /\ last = NoCall
    /\ ck = NoComposite
    /\ derIn = NoInput
    /\ derOut = NoDecode
    /\ bld = NoBuilder
    /\ env = NoEnvelope

NextXWing == KeyGen \/ KeyGenWithRng \/ Encap \/ PkEncap \/ Decap

SpecXWing == InitXWing /\ [][NextXWing]_vars

-----------------------------------------------------------------------------
(* Properties of the hybrid KEM *)

CallsTo(calls, fn) == SelectSeq(calls, LAMBDA c : c.fn = fn)

IsKeyGen == last.op \in {"key_gen", "key_gen_with_rng"}

\* the last call decapsulated enc.ct with the private key of the key pair
\* whose public key enc was encapsulated to
HonestDecap ==
    /\ last.op = "decap"
    /\ kp.has
    /\ enc.has
    /\ enc.pk = kp.pk
    /\ last.arg = <<kp.sk, enc.ct>>

\* C1: for a key pair (pk, sk) returned by key generation and a pair
\* (shared secret, ciphertext) returned by encap(pk), decap(sk, ciphertext)
\* succeeds and returns exactly that shared secret.
C1_RoundTrip == HonestDecap => last.out = Ok(enc.ss)

C1_Witness == HonestDecap /\ last.out.ok /\ ByteLen(last.out.val) = SS_LEN

\* C2: decap with a ciphertext whose length is not 1120 returns
\* Err(InvalidCiphertext) having run no other computation: no seed
\* expansion, no key derivation, no sub-KEM decapsulation.
C2_LengthCheckedFirst ==
    (last.op = "decap" /\ ByteLen(last.arg[2]) # XWING_CT_LEN)
        => (last.out = Err("InvalidCiphertext") /\ last.calls = <<>>)

\* C3: encap with a public key whose length is not 1216 returns
\* Err(InvalidPublicKey) and runs neither sub-KEM encapsulation nor the
\* combiner.
C3_EncapRejectsBadLength ==
    (last.op = "encap" /\ ByteLen(last.arg[1]) # XWING_PK_LEN)
        => (last.out = Err("InvalidPublicKey") /\ last.calls = <<>>)

C3_Witness ==
    /\ last.op = "encap"
    /\ ByteLen(last.arg[1]) > XWING_PK_LEN
    /\ last.out = Err("InvalidPublicKey")

\* C4: the tuple returned by XWingKemManager::encap and by PublicKey::encap
\* is (ciphertext, shared secret): its first element is the 1120-byte
\* ciphertext, its second the 32-byte shared secret.
C4_CiphertextFirst ==
    (last.op \in {"encap", "PublicKey.encap"} /\ last.out.ok)
        => /\ ByteLen(last.out.val[1]) = XWING_CT_LEN
           /\ ByteLen(last.out.val[2]) = SS_LEN

SubDecapFailed ==
    \E i \in DOMAIN last.calls :
        /\ last.calls[i].fn \in {"ml_kem.decap", "ec_kem.decap"}
        /\ ~last.calls[i].ret.ok

\* C5: for a ciphertext of the right length, when a sub-decapsulation fails,
\* decap still runs both sub-decapsulations and the combiner and returns a
\* shared secret.
C5_NoShortCircuit ==
    (last.op = "decap" /\ ByteLen(last.arg[2]) = XWING_CT_LEN /\ SubDecapFailed)
        => /\ last.out.ok
           /\ Len(CallsTo(last.calls, "ml_kem.decap")) = 1
           /\ Len(CallsTo(last.calls, "ec_kem.decap")) = 1
           /\ Len(CallsTo(last.calls, "combiner")) = 1

\* Hash(label || ss_m || ss_x || ct_x || pk_x) of the arguments a
HashOf(a) ==
    Sha3_256(Concat(Concat(Concat(Concat(XWingLabel, a[1]), a[2]), a[3]), a[4]))

\* C6: encap and decap compute the shared secret as
\* Hash(label || ss_m || ss_x || ct_x || pk_x) of the two sub-KEM secrets,
\* the last 32 bytes of the ciphertext and the classical public key (bytes
\* 1184..1216 of pk in encap, re-derived from the seed in decap), and a decap
\* of an honest ciphertext hands the combiner the arguments encap handed it.
C6_SameCombiner ==
    /\ (last.op = "encap" /\ last.out.ok) =>
          LET cc == CallsTo(last.calls, "combiner")
              a == cc[1].args
          IN  /\ Len(cc) = 1
              /\ a[1] = CallsTo(last.calls, "ml_kem.encap")[1].ret.val[1]
              /\ a[2] = CallsTo(last.calls, "ec_kem.encap")[1].ret.val[1]
              /\ a[3] = Slice(last.out.val[2], MLKEM_CT_LEN, XWING_CT_LEN)
              /\ a[4] = Slice(last.arg[1], MLKEM_PK_LEN, XWING_PK_LEN)
              /\ last.out.val[1] = HashOf(a)
    /\ (last.op = "decap" /\ last.out.ok) =>
          LET cc == CallsTo(last.calls, "combiner")
              a == cc[1].args
          IN  /\ Len(cc) = 1
              /\ a[1] = CallsTo(last.calls, "ml_kem.decap")[1].ret.val
              /\ a[2] = CallsTo(last.calls, "ec_kem.decap")[1].ret.val
              /\ a[3] = Slice(last.arg[2], MLKEM_CT_LEN, XWING_CT_LEN)
              /\ a[4] = CallsTo(last.calls, "get_pk_from_sk")[1].ret.val
              /\ last.out.val = HashOf(a)
    /\ HonestDecap =>
          /\ last.out.ok
          /\ CallsTo(last.calls, "combiner")[1].args
                = CallsTo(enc.calls, "combiner")[1].args

C6_Witness ==
    /\ HonestDecap
    /\ last.out.ok
    /\ Len(CallsTo(enc.calls, "combiner")) = 1
    /\ last.out.val = HashOf(CallsTo(enc.calls, "combiner")[1].args)

\* C7: key generation returns a 1216-byte public key (the 1184-byte lattice
\* key, then the 32-byte classical key) and as private key the 32-byte seed
\* itself; encap returns a 1120-byte ciphertext (the 1088-byte lattice
\* ciphertext, then the 32-byte classical one) and a 32-byte shared secret;
\* decap returns a 32-byte shared secret.
C7_FixedSizes ==
    /\ (IsKeyGen /\ last.out.ok) =>
          LET pk == last.out.val[1]
              sk == last.out.val[2]
          IN  /\ ByteLen(pk) = XWING_PK_LEN
              /\ IsWhole(Slice(pk, 0, MLKEM_PK_LEN), "mlkem768_ek", MLKEM_PK_LEN)
              /\ IsWhole(Slice(pk, MLKEM_PK_LEN, XWING_PK_LEN), "x25519_pk", X25519_LEN)
              /\ ByteLen(sk) = SEED_LEN
              /\ sk = last.calls[1].ret.val
    /\ (last.op = "encap" /\ last.out.ok) =>
          LET ss == last.out.val[1]
              ct == last.out.val[2]
          IN  /\ ByteLen(ct) = XWING_CT_LEN
              /\ IsWhole(Slice(ct, 0, MLKEM_CT_LEN), "mlkem768_ct", MLKEM_CT_LEN)
              /\ IsWhole(Slice(ct, MLKEM_CT_LEN, XWING_CT_LEN), "x25519_pk", X25519_LEN)
              /\ ByteLen(ss) = SS_LEN
    /\ (last.op = "decap" /\ last.out.ok) => ByteLen(last.out.val) = SS_LEN

C7_Witness ==
    /\ last.op = "encap"
    /\ last.out.ok
    /\ kp.has
    /\ ByteLen(kp.pk) = XWING_PK_LEN
    /\ ByteLen(last.out.val[2]) = XWING_CT_LEN

\* the calls of expand_decapsulation_key among the calls of the last operation
ExpansionCalls ==
    IF IsKeyGen THEN Tail(last.calls) ELSE SubSeq(last.calls, 1, 3)

\* the seed the last operation expanded
ExpandedSeed == IF IsKeyGen THEN last.out.val[2] ELSE last.arg[1]

\* C8: key_gen, key_gen_with_rng and decap derive (sk_m, sk_x, pk_m, pk_x)
\* from the seed by the same 96-byte expansion, bytes 0..32 = d, 32..64 = z,
\* 64..96 = sk_x; the public key that key generation returns for a seed is
\* pk_m || pk_x as decap re-derives them for that seed.
C8_SameExpansion ==
    /\ ((IsKeyGen /\ last.out.ok) \/ last.op = "decap") =>
          LET c == ExpansionCalls
              ex == c[1].ret.val
          IN  /\ Len(c) >= 3
              /\ c[1].fn = "shake.derive"
              /\ c[1].args = <<ExpandedSeed>>
              /\ ByteLen(ex) = EXPANDED_LEN
              /\ c[2].fn = "ml_kem.key_gen_deterministic"
              /\ c[2].args = <<Slice(ex, 0, 32), Slice(ex, 32, 64)>>
              /\ c[3].fn = "get_pk_from_sk"
              /\ c[3].args = <<Slice(ex, 64, 96)>>
              /\ (IsKeyGen =>
                    last.out.val[1] = Concat(c[2].ret.val[1], c[3].ret.val))
    /\ (last.op = "decap" /\ kp.has /\ last.arg[1] = kp.sk) =>
          LET c == ExpansionCalls
          IN  /\ Concat(c[2].ret.val[1], c[3].ret.val) = kp.pk
              /\ c = SubSeq(kp.calls, 2, 4)

C8_Witness ==
    /\ last.op = "decap"
    /\ kp.has
    /\ last.arg[1] = kp.sk
    /\ Len(last.calls) >= 3
    /\ Concat(last.calls[2].ret.val[1], last.calls[3].ret.val) = kp.pk

-----------------------------------------------------------------------------
(* Properties of the composite key codec *)

\* the length octets X.690 prescribes in DER for a length below 65536
LengthOctets(n) ==
    IF n <= 127 THEN <<n>>
    ELSE IF n <= 255 THEN <<129, n>>
    ELSE <<130, n \div 256, n % 256>>

\* a BIT STRING element with no unused bit holding the bytes b
BitStringElement(b) == <<3>> \o LengthOctets(Len(b) + 1) \o <<0>> \o b

\* a SEQUENCE of exactly the two bit strings a and b, a first
TwoBitStrings(a, b) ==
    <<48>> \o LengthOctets(Len(BitStringElement(a)) + Len(BitStringElement(b)))
           \o BitStringElement(a) \o BitStringElement(b)

\* C9: from_der(oid, new(oid, a, b).to_der()) succeeds and yields the key
\* with post-quantum component a, classical component b and OID oid; the
\* encoding is one sequence of exactly two bit strings, the post-quantum one
\* first, each with zero unused bits.
C9_CodecRoundTrip ==
    /\ (ck.has /\ derIn.how \in {"to_der", "to_der failed"}) =>
          /\ derIn.how = "to_der"
          /\ derIn.bytes = TwoBitStrings(ck.key.pq_pk, ck.key.trad_pk)
    /\ (derOut.called /\ derOut.how = "to_der") =>
          /\ derOut.res.ok
          /\ derOut.res.val.pq_pk = ck.key.pq_pk
          /\ derOut.res.val.trad_pk = ck.key.trad_pk
          /\ derOut.res.val.oid = derOut.oid
          /\ (derOut.oid = ck.key.oid => derOut.res = Ok(ck.key))

C9_Witness ==
    /\ derOut.called
    /\ derOut.how = "to_der"
    /\ derOut.oid = ck.key.oid
    /\ derOut.res = Ok(ck.key)
    /\ Len(ck.key.pq_pk) > 126
    /\ ck.key.trad_pk = <<>>

\* C10: from_der returns Err(InvalidPublicKey), never a key, for every input
\* that is not exactly one sequence of exactly two bit strings with no unused
\* bits: fewer or more elements, an element that is no bit string, unused
\* bits, trailing data; and it returns no other error.
C10_RejectsNonComposite ==
    derOut.called =>
        /\ (~derOut.res.ok => derOut.res = Err("InvalidPublicKey"))
        /\ (derOut.res.ok =>
              derOut.der = TwoBitStrings(derOut.res.val.pq_pk, derOut.res.val.trad_pk))
        /\ (derOut.how # "to_der" => ~derOut.res.ok)

C10_Witness ==
    /\ derOut.called
    /\ derOut.how = "unused bits"
    /\ CompositeSigKemPublicKeyFromDer(derOut.der).ok
    /\ derOut.res = Err("InvalidPublicKey")

-----------------------------------------------------------------------------
(* The enveloped-data engine: the collaborators it consumes               *)
(* (src/cms/asn1/enveloped_data_content.rs and the modules it calls).     *)
(* KDF, key wrap, content cipher, DER and PEM are consumed through their  *)
(* contracts: each output is the symbolic result of the call that made    *)
(* it, and the inverse operation succeeds on that output only.            *)

\* b is the complete output of one call tagged tag, whose source records
\* its own length in position lenAt
WholeOf(b, tag, lenAt) ==
    /\ Len(b) = 1
    /\ b[1].src[1] = tag
    /\ b[1].off = 0
    /\ b[1].n = b[1].src[lenAt]

\* UserKeyingMaterial, optional in kem_recipient
NoUkm == [some |-> FALSE, bytes |-> <<>>]
SomeUkm == [some |-> TRUE, bytes |-> Atom(<<"ukm", "test">>, 4)]

\* KDF: the wrapping key, of the length the wrap algorithm asks, derived
\* from the shared secret and the UKM
Kdf(kdf, ss, ukm, wrap) ==
    Atom(<<"kdf", kdf, ss, ukm>>, IF wrap = "Aes256" THEN 32 ELSE 16)

\* key wrap (RFC 3394 adds an 8-byte integrity block)
WrapKey(wrap, kek, cek) ==
    Atom(<<"wrap", ByteLen(cek) + 8, wrap, kek, cek>>, ByteLen(cek) + 8)

\* key unwrap: the integrity check passes under the wrapping key only
UnwrapKey(wrap, kek, wrapped) ==
    IF /\ WholeOf(wrapped, "wrap", 2)
       /\ wrapped[1].src[3] = wrap
       /\ wrapped[1].src[4] = kek
    THEN Ok(wrapped[1].src[5])
    ELSE Err("UnwrapFailed")

\* ContentEncryptionAlgorithm and the CeaType get_builder maps it to
ContentEncryptionAlgorithms == {"Aes128Cbc", "Aes192Cbc", "Aes256Cbc"}

\* EnvelopedDataContent::get_builder, the match on content_encryption_alg
CeaOf(alg) ==
    CASE alg = "Aes128Cbc" -> "Aes128CbcPad"
      [] alg = "Aes192Cbc" -> "Aes192CbcPad"
      [] alg = "Aes256Cbc" -> "Aes256CbcPad"

\* content cipher: CBC, the plaintext padded (PKCS#7) to the 16-byte block
CeaEncrypt(cea, cek, iv, pt) ==
    LET n == (ByteLen(pt) \div 16 + 1) * 16
    IN  Atom(<<"cbc", n, cea, cek, iv, pt>>, n)

\* decryption gives the plaintext back under the same key and IV; any other
\* input ends in a padding error
CeaDecrypt(cea, cek, iv, ct) ==
    IF /\ WholeOf(ct, "cbc", 2)
       /\ ct[1].src[3] = cea
       /\ ct[1].src[4] = cek
       /\ ct[1].src[5] = iv
    THEN Ok(ct[1].src[6])
    ELSE Err("DecryptFailed")

\* the random content-encryption key of a builder
GenerateCek(cea, i) ==
    Atom(<<"cek", i>>, CASE cea = "Aes128CbcPad" -> 16
                         [] cea = "Aes192CbcPad" -> 24
                         [] cea = "Aes256CbcPad" -> 32)

-----------------------------------------------------------------------------
(* DER and PEM of ContentInfo and EnvelopedData *)

ID_ENVELOPED_DATA == "id-envelopedData"

\* Encode::to_der of a value of the given type with n content octets
DerEncode(type, v, n) == Atom(<<"der", n + 4, type, v>>, n + 4)

\* Decode::from_der: the whole input is one encoding of the type
DerDecode(type, d) ==
    IF WholeOf(d, "der", 2) /\ d[1].src[3] = type
    THEN Ok(d[1].src[4])
    ELSE Err("der")

\* ContentInfo::from_der and EnvelopedData::from_der
ContentInfoFromDer(d) == DerDecode("ContentInfo", d)
EnvelopedDataFromDer(d) == DerDecode("EnvelopedData", d)

\* ci.content.to_der(): the encoding of an Any that was decoded is the
\* octets it was decoded from
AnyToDer(any) == Ok(any)

\* pem::encode / pem::parse
PemEncode(label, contents) ==
    LET n == 4 * ((ByteLen(contents) + 2) \div 3) + 40
    IN  Atom(<<"pem", n, label, contents>>, n)
PemParse(d) ==
    IF WholeOf(d, "pem", 2) THEN Ok(d[1].src[4]) ELSE Err("pem")

-----------------------------------------------------------------------------
(* Keys and certificates of the recipients *)

\* DsaType::all() and DsaType::get_oid
DsaTypeAll == <<"MlDsa44", "MlDsa65", "MlDsa87", "MlDsa44-Ed25519">>
get_oid(dsa_type) == "oid:" \o dsa_type

\* asn_util::is_dsa_oid: is this the OID of a registered DSA
is_dsa_oid(oid) == \E i \in 1..Len(DsaTypeAll) : get_oid(DsaTypeAll[i]) = oid

\* KemManager::new_from_oid(oid) followed by decap on the instance
KemManagerDecap(oid, sk, ct) ==
    IF oid = OID_XWING THEN XWingDecap(sk, ct)
    ELSE Out(Err("InvalidOid"), <<>>)

\* PrivateKey::decap
PrivateKeyDecap(key, ct) ==
    IF is_dsa_oid(key.oid) THEN Out(Err("UnsupportedOperation"), <<>>)
    ELSE KemManagerDecap(key.oid, key.private_key, ct)

\* the i-th party: an XWing key pair, the certificate for its public key
\* and the PrivateKey object of its secret key
PartyKeys(i) == XWingKeyGenWithRng(RandBytes(i)).res.val
CertificateOf(i) ==
    [rid |-> <<"issuer-and-serial", i>>, oid |-> OID_XWING, pk |-> PartyKeys(i)[1]]
PrivateKeyOf(i) == [oid |-> OID_XWING, private_key |-> PartyKeys(i)[2]]

\* a signing key: a PrivateKey whose OID is a DSA's
DsaPrivateKey == [oid |-> OID_MLDSA44, private_key |-> Atom(<<"mldsa_sk", 0>>, 2560)]

-----------------------------------------------------------------------------
(* CmsUtil::decrypt_kemri, the reader's decryption *)

\* parse(bytes): the binary form or the text-armored form of the same bytes
ParseEnvelope(data) ==
    LET pem == PemParse(data)
        ci == IF pem.ok THEN ContentInfoFromDer(pem.val) ELSE ContentInfoFromDer(data)
    IN  IF ~ci.ok \/ ci.val.content_type # ID_ENVELOPED_DATA THEN Err("InvalidContent")
        ELSE LET ed == EnvelopedDataFromDer(ci.val.content)
             IN  IF ed.ok THEN ed ELSE Err("InvalidContent")

\* index of the first KemRecipientInfo whose recipient id is rid, 0 if none
FindRecipient_First(ris, rid) == IF ris = <<>> THEN 0 ELSE 1

FindRecipient(ris, rid) ==
    IF \A i \in 1..Len(ris) : ris[i].rid # rid THEN 0
    ELSE CHOOSE i \in 1..Len(ris) :
            ris[i].rid = rid /\ \A j \in 1..(i - 1) : ris[j].rid # rid

\* the one condition every failure of decapsulation, unwrap and content
\* decryption is surfaced as
DecryptionFailure_StageError(e) == e

DecryptionFailure(e) == "InvalidContent"

\* decrypt_for_recipient, third stage: the content under the CEK
ContentDecrypted(pt, calls) ==
    IF ~pt.ok THEN Out(Err(DecryptionFailure(pt.err)), Append(calls, Call("decrypt", <<>>, FALSE)))
    ELSE Out(Ok(pt.val), Append(calls, Call("decrypt", <<>>, TRUE)))

\* second stage: the CEK unwrapped under the re-derived wrapping key
KeyUnwrapped(eci, cek, calls) ==
    IF ~cek.ok THEN Out(Err(DecryptionFailure(cek.err)), Append(calls, Call("unwrap", <<>>, FALSE)))
    ELSE ContentDecrypted(CeaDecrypt(eci.cea, cek.val, eci.iv, eci.bytes),
                          Append(calls, Call("unwrap", <<>>, TRUE)))

\* first stage: the shared secret decapsulated with the private key
Decapsulated(ed, ri, ss) ==
    IF ~ss.ok THEN Out(Err(DecryptionFailure(ss.err)), <<Call("decap", <<>>, FALSE)>>)
    ELSE KeyUnwrapped(ed.encrypted_content,
                      UnwrapKey(ri.wrap, Kdf(ri.kdf, ss.val, ri.ukm, ri.wrap),
                                ri.encrypted_key),
                      <<Call("decap", <<>>, TRUE)>>)

\* decrypt_for_recipient(private_key, recipient_identity)
DecryptForRecipient(ed, sk, rid) ==
    LET i == FindRecipient(ed.recip_infos, rid)
    IN  IF i = 0 THEN Out(Err("InvalidContent"), <<>>)
        ELSE Decapsulated(ed, ed.recip_infos[i],
                          PrivateKeyDecap(sk, ed.recip_infos[i].kemct).res)

DecryptKemri(data, sk, cert) ==
    LET p == ParseEnvelope(data)
    IN  IF ~p.ok THEN Out(Err("InvalidContent"), <<>>)
        ELSE DecryptForRecipient(p.val, sk, cert.rid)

-----------------------------------------------------------------------------
(* EnvelopedDataContent (src/cms/asn1/enveloped_data_content.rs) *)

\* lines 160-166: the input as DER, and if that fails as PEM
ReadContentInfo_DerOnly(data) ==
    LET der == ContentInfoFromDer(data)
    IN  IF der.ok THEN der ELSE Err("InvalidContent")

ReadContentInfo(data) ==
    LET der == ContentInfoFromDer(data)
    IN  IF der.ok THEN der
        ELSE LET pem == PemParse(data)
             IN  IF ~pem.ok THEN Err("InvalidContent")
                 ELSE LET inner == ContentInfoFromDer(pem.val)
                      IN  IF inner.ok THEN inner ELSE Err("InvalidContent")

\* lines 178-179: EnvelopedData::from_der and its error
ReadEnvelopedData_OwnError(enveloped_data) ==
    LET ed == EnvelopedDataFromDer(enveloped_data)
    IN  IF ed.ok THEN ed ELSE Err("InvalidEnvelopedData")

ReadEnvelopedData(enveloped_data) ==
    LET ed == EnvelopedDataFromDer(enveloped_data)
    IN  IF ed.ok THEN ed ELSE Err("InvalidContent")

\* lines 182-190: the error of the decryption, or the content
Opened_WithoutContent(ed, pt) ==
    Out(Ok([version |-> ed.version,
            originator_info |-> ed.originator_info,
            recip_infos |-> ed.recip_infos,
            content |-> IF pt.res.ok THEN pt.res.val ELSE <<>>,
            unprotected_attrs |-> ed.unprotected_attrs]),
        pt.calls)

Opened(ed, pt) ==
    IF ~pt.res.ok THEN Out(Err(pt.res.err), pt.calls)
    ELSE Out(Ok([version |-> ed.version,
                 originator_info |-> ed.originator_info,
                 recip_infos |-> ed.recip_infos,
                 content |-> pt.res.val,
                 unprotected_attrs |-> ed.unprotected_attrs]),
             pt.calls)

\* EnvelopedDataContent::from_bytes_for_kem_recipient
FromBytesForKemRecipient(data, recipient_cert, recipient_private_key) ==
    LET ci == ReadContentInfo(data)
    IN  IF ~ci.ok THEN Out(Err(ci.err), <<>>)
        ELSE IF ci.val.content_type # ID_ENVELOPED_DATA
        THEN Out(Err("InvalidContent"), <<>>)
        ELSE
        LET enveloped_data == AnyToDer(ci.val.content)
        IN  IF ~enveloped_data.ok THEN Out(Err("InvalidEnvelopedData"), <<>>)
            ELSE
            LET ed == ReadEnvelopedData(enveloped_data.val)
            IN  IF ~ed.ok THEN Out(Err(ed.err), <<>>)
                ELSE Opened(ed.val,
                            DecryptKemri(data, recipient_private_key, recipient_cert))

\* the accessors
get_version_Lowest(edc) == "V0"
get_version(edc) == edc.version

get_originator_info(edc) == edc.originator_info

get_content_Empty(edc) == <<>>
get_content(edc) == edc.content

get_unprotected_attrs_None(edc) == [some |-> FALSE, attrs |-> <<>>]
get_unprotected_attrs(edc) == edc.unprotected_attrs

get_recipient_infos(edc) == edc.recip_infos

-----------------------------------------------------------------------------
(* EnvelopedDataBuilder: Init -> (RecipientAdded)* -> ContentSet ->        *)
(* (UnprotectedAttributeAdded)* -> Built                                   *)

NoOriginatorInfo == [some |-> FALSE]
NoAttributes == [some |-> FALSE, attrs |-> <<>>]

\* EnvelopedDataBuilder::new(cea, false)
NewBuilder(cea) ==
    Ok([phase |-> "Init", cea |-> cea, cek |-> <<>>, recips |-> <<>>,
        has_content |-> FALSE,
        encrypted_content |-> [cea |-> cea, iv |-> <<>>, bytes |-> <<>>],
        plaintext |-> <<>>, attrs |-> <<>>])

\* EnvelopedDataContent::get_builder
GetBuilder(content_encryption_alg) == NewBuilder(CeaOf(content_encryption_alg))

\* the content-encryption key of the builder: generated by the first
\* operation that needs it, the same one ever after
SessionCek_PerRecipient(b) == GenerateCek(b.cea, Len(b.recips) + 1)

SessionCek(b) ==
    IF b.cek = <<>> THEN GenerateCek(b.cea, Len(b.recips) + 1) ELSE b.cek

\* kem_recipient(cert, kdf, wrap, ukm): encapsulate to the certificate's key,
\* derive the wrapping key, wrap the CEK, append a KemRecipientInfo
Encapsulated(b, cert, kdf, wrap, ukm, e) ==
    IF ~e.ok THEN [res |-> Err(e.err), b |-> b]
    ELSE [res |-> Ok(Len(b.recips) + 1),
          b |-> [b EXCEPT
                   !.phase = "RecipientAdded",
                   !.cek = SessionCek(b),
                   !.recips = Append(@,
                       [rid |-> cert.rid, kem |-> cert.oid, kdf |-> kdf, wrap |-> wrap,
                        ukm |-> ukm, kemct |-> e.val[2],
                        encrypted_key |->
                            WrapKey(wrap, Kdf(kdf, e.val[1], ukm, wrap),
                                    SessionCek(b))])]]

AddKemRecipient(b, cert, kdf, wrap, ukm, coin) ==
    Encapsulated(b, cert, kdf, wrap, ukm, KemManagerEncap(cert.oid, cert.pk, coin).res)

\* content(plaintext): a fresh IV, the plaintext encrypted under the CEK
SetContent(b, plaintext) ==
    LET cek == SessionCek(b)
        iv == Atom(<<"iv", 1>>, 16)
    IN  [res |-> Ok(ByteLen(plaintext)),
         b |-> [b EXCEPT !.phase = "ContentSet", !.cek = cek, !.has_content = TRUE,
                         !.plaintext = plaintext,
                         !.encrypted_content =
                             [cea |-> b.cea, iv |-> iv,
                              bytes |-> CeaEncrypt(b.cea, cek, iv, plaintext)]]]

\* an Attribute with one OCTET STRING value; k is the last arc of its OID
\* and decides its place in the DER order of the SET OF
AttributeOf(k) ==
    [oid |-> <<"1.3.6.1.4.1.22554.5", k>>,
     values |-> <<[tag |-> "OctetString", value |-> Atom(<<"attribute value", k>>, 3)]>>]

Attributes == {AttributeOf(k) : k \in {6, 7}}

\* SetOfVec::insert: the set stays in DER order, a duplicate is an error
SetOfInsert(set, a) ==
    IF \E i \in 1..Len(set) : set[i] = a THEN Err("SetDuplicate")
    ELSE LET before == SelectSeq(set, LAMBDA x : x.oid[2] < a.oid[2])
             after == SelectSeq(set, LAMBDA x : x.oid[2] > a.oid[2])
         IN  Ok(before \o <<a>> \o after)

\* unprotected_attribute(attr)
AddUnprotectedAttribute(b, attr) ==
    LET s == SetOfInsert(b.attrs, attr)
    IN  IF ~s.ok THEN [res |-> Err("InvalidContent"), b |-> b]
        ELSE [res |-> Ok(Len(s.val)),
              b |-> [b EXCEPT !.phase = "UnprotectedAttributeAdded", !.attrs = s.val]]

\* the lowest CMS version the structure allows: a KemRecipientInfo is an
\* OtherRecipientInfo and forces version 3
ComputeVersion(recips, attrs) ==
    IF Len(recips) >= 1 THEN "V3"
    ELSE IF attrs = <<>> THEN "V0" ELSE "V2"

\* what build() requires
BuildReady_ContentOnly(b) == b.has_content

BuildReady(b) == Len(b.recips) >= 1 /\ b.has_content

\* the EnvelopedData of the builder
EnvelopedDataOf(b) ==
    [version |-> ComputeVersion(b.recips, b.attrs),
     originator_info |-> NoOriginatorInfo,
     recip_infos |-> b.recips,
     encrypted_content |-> b.encrypted_content,
     unprotected_attrs |-> IF b.attrs = <<>> THEN NoAttributes
                           ELSE [some |-> TRUE, attrs |-> b.attrs]]

\* the wire form: a ContentInfo of the given type around the EnvelopedData
Serialize(content_type, ed) ==
    LET n == 1216 * Len(ed.recip_infos) + ByteLen(ed.encrypted_content.bytes) + 64
    IN  DerEncode("ContentInfo",
                  [content_type |-> content_type,
                   content |-> DerEncode("EnvelopedData", ed, n)],
                  n + 19)

\* build()
BuildEnvelope(b) ==
    IF ~BuildReady(b) THEN Err("InvalidContent")
    ELSE Ok(Serialize(ID_ENVELOPED_DATA, EnvelopedDataOf(b)))

-----------------------------------------------------------------------------
(* The state machine of the enveloped-data engine: one builder is taken    *)
(* through its protocol, the envelope it built is handed on as it is, in   *)
(* PEM, or altered, and readers holding a certificate and a private key    *)
(* open it.                                                                *)
(*   bld   the builder                                                     *)
(*   env   the recipients and attributes the builder accepted, the         *)
(*         envelope built (der) and the bytes handed to the readers        *)
(*   last  the last call and its result                                    *)

ContentLengths == {0, 1, 4096, 4097}
Plaintext(n) == Atom(<<"plaintext", n>>, n)

\* the party i sends user keying material when i is odd
UkmOf(i) == IF i % 2 = 1 THEN SomeUkm ELSE NoUkm

GetBuilderStep ==
    /\ bld = NoBuilder
    /\ \E alg \in ContentEncryptionAlgorithms :
        LET r == GetBuilder(alg)
        IN  /\ bld' = r.val
            /\ last' = Done("get_builder", <<alg>>, Out(Ok(alg), <<>>))
    /\ UNCHANGED <<kp, enc, ck, derIn, derOut, env>>

\* kem_recipient, for a certificate that is not yet a recipient
KemRecipient ==
    /\ bld # NoBuilder
    /\ bld.phase \in {"Init", "RecipientAdded"}
    /\ \E i \in Seeds :
        /\ \A k \in 1..Len(bld.recips) : bld.recips[k].rid # CertificateOf(i).rid
        /\ LET r == AddKemRecipient(bld, CertificateOf(i), "HkdfWithSha256", "Aes256",
                                    UkmOf(i), (Len(bld.recips) % NumCoins) + 1)
           IN  /\ bld' = r.b
               /\ last' = Done("kem_recipient", <<i>>, Out(r.res, <<>>))
               /\ env' = IF r.res.ok THEN [env EXCEPT !.recipients = @ + 1] ELSE env
    /\ UNCHANGED <<kp, enc, ck, derIn, derOut>>

Content ==
    /\ bld # NoBuilder
    /\ bld.phase \in {"Init", "RecipientAdded"}
    /\ \E n \in ContentLengths :
        LET r == SetContent(bld, Plaintext(n))
        IN  /\ bld' = r.b
            /\ last' = Done("content", <<n>>, Out(r.res, <<>>))
    /\ UNCHANGED <<kp, enc, ck, derIn, derOut, env>>

UnprotectedAttribute ==
    /\ bld # NoBuilder
    /\ bld.phase \in {"ContentSet", "UnprotectedAttributeAdded"}
    /\ \E a \in Attributes :
        LET r == AddUnprotectedAttribute(bld, a)
        IN  /\ bld' = r.b
            /\ last' = Done("unprotected_attribute", <<a>>, Out(r.res, <<>>))
            /\ env' = IF r.res.ok THEN [env EXCEPT !.attributes = Append(@, a)] ELSE env
    /\ UNCHANGED <<kp, enc, ck, derIn, derOut>>

\* build(), in any state of the builder
Build ==
    /\ bld # NoBuilder
    /\ bld.phase # "Built"
    /\ LET r == BuildEnvelope(bld)
       IN  /\ bld' = IF r.ok THEN [bld EXCEPT !.phase = "Built"] ELSE bld
           /\ env' = IF r.ok
                     THEN [env EXCEPT !.has = TRUE, !.how = "built", !.der = r.val,
                                      !.bytes = r.val]
                     ELSE env
           /\ last' = Done("build", <<>>, Out(r, <<>>))
    /\ UNCHANGED <<kp, enc, ck, derIn, derOut>>

Handed(how, bytes) == [env EXCEPT !.how = how, !.bytes = bytes]

\* once built, the envelope is handed on armored as PEM, replaced by bytes that are not
\* an envelope, or altered in one of the fields the three stages of the
\* decryption read
HandOver ==
    /\ env.how = "built"
    /\ last.op = "build"
    /\ LET ed == EnvelopedDataOf(bld)
           ri == ed.recip_infos[1]
       IN  \/ env' = Handed("pem", PemEncode("CMS", env.der))
           \/ env' = Handed("junk", Junk(ByteLen(env.der)))
           \/ env' = Handed("truncated", Take(env.der, ByteLen(env.der) - 1))
           \/ env' = Handed("trailing data", Concat(env.der, Junk(1)))
           \/ env' = Handed("pem of junk", PemEncode("CMS", Junk(ByteLen(env.der))))
           \/ env' = Handed("signed data", Serialize("id-signedData", ed))
           \/ env' = Handed("not enveloped data",
                            DerEncode("ContentInfo",
                                      [content_type |-> ID_ENVELOPED_DATA,
                                       content |-> DerEncode("SignedData", <<>>, 64)],
                                      83))
           \/ env' = Handed("short kem ciphertext",
                        Serialize(ID_ENVELOPED_DATA,
                            [ed EXCEPT !.recip_infos[1].kemct =
                                           Take(ri.kemct, XWING_CT_LEN - 1)]))
           \/ env' = Handed("foreign wrapped key",
                        Serialize(ID_ENVELOPED_DATA,
                            [ed EXCEPT !.recip_infos[1].encrypted_key =
                                           WrapKey(ri.wrap, Junk(32),
                                                   bld.cek)]))
           \/ env' = Handed("corrupt content",
                        Serialize(ID_ENVELOPED_DATA,
                            [ed EXCEPT !.encrypted_content.bytes =
                                           Junk(ByteLen(ed.encrypted_content.bytes))]))
    /\ UNCHANGED <<kp, enc, last, ck, derIn, derOut, bld>>

\* from_bytes_for_kem_recipient on the bytes at hand, by a reader holding
\* the certificate of a party and the private key of a party, or a signing key
ReadEnvelope ==
    /\ env.has
    /\ last.op # "from_bytes_for_kem_recipient"
    /\ \E i \in Seeds, key \in {PrivateKeyOf(k) : k \in Seeds} \cup {DsaPrivateKey} :
        LET o == FromBytesForKemRecipient(env.bytes, CertificateOf(i), key)
        IN  last' = Done("from_bytes_for_kem_recipient", <<CertificateOf(i), key>>, o)
    /\ UNCHANGED <<kp, enc, ck, derIn, derOut, bld, env>>

InitEnvelope ==
    /\ kp = NoKey
    /\ enc = NoEnc
    /\ last = NoCall
    /\ ck = NoComposite
    /\ derIn = NoInput
    /\ derOut = NoDecode
    /\ bld = NoBuilder
    /\ env = NoEnvelope

NextEnvelope ==
    \/ GetBuilderStep \/ KemRecipient \/ Content \/ UnprotectedAttribute \/ Build
    \/ HandOver \/ ReadEnvelope

SpecEnvelope == InitEnvelope /\ [][NextEnvelope]_vars

-----------------------------------------------------------------------------
(* Properties of the enveloped-data engine *)

IsRead == last.op = "from_bytes_for_kem_recipient"

\* the certificate and the private key of the last read
ReaderCert == last.arg[1]
ReaderKey == last.arg[2]

\* the last read was made by a recipient of the envelope built, with the
\* private key of its certificate
ReaderIsRecipient ==
    /\ IsRead
    /\ \E i \in Seeds : ReaderCert = CertificateOf(i) /\ ReaderKey = PrivateKeyOf(i)
    /\ \E k \in 1..Len(bld.recips) : bld.recips[k].rid = ReaderCert.rid

\* C11: reading the PEM form of an envelope has the outcome of reading its
\* DER form with the same certificate and private key, and for a recipient
\* of the envelope both succeed with the same version, originator info,
\* recipient infos, unprotected attributes and content.
C11_DerAndPemAlike ==
    (IsRead /\ env.how = "pem") =>
        LET der == FromBytesForKemRecipient(env.der, ReaderCert, ReaderKey).res
        IN  /\ last.out = der
            /\ ReaderIsRecipient =>
                /\ last.out.ok /\ der.ok
                /\ get_version(last.out.val) = get_version(der.val)
                /\ get_originator_info(last.out.val) = get_originator_info(der.val)
                /\ get_recipient_infos(last.out.val) = get_recipient_infos(der.val)
                /\ get_unprotected_attrs(last.out.val) = get_unprotected_attrs(der.val)
                /\ get_content(last.out.val) = get_content(der.val)

C11_Witness ==
    /\ ReaderIsRecipient
    /\ env.how = "pem"
    /\ last.out.ok
    /\ get_content(last.out.val) = bld.plaintext
    /\ ByteLen(bld.plaintext) = 4097

\* the bytes at hand were made so that the reader's parse must fail: they
\* are no DER and no PEM ContentInfo, or a ContentInfo of another content
\* type, or a ContentInfo whose content is no EnvelopedData
NotAnEnvelope ==
    env.how \in {"junk", "truncated", "trailing data", "pem of junk",
                 "signed data", "not enveloped data"}

FailedStage(calls) ==
    IF calls # <<>> /\ ~calls[Len(calls)].ret THEN calls[Len(calls)].fn ELSE ""

\* what each reader gets from the bytes at hand
Readers ==
    {<<CertificateOf(i), key>> :
        i \in Seeds, key \in {PrivateKeyOf(k) : k \in Seeds} \cup {DsaPrivateKey}}
ReadBy(r) == FromBytesForKemRecipient(env.bytes, r[1], r[2])

\* C13: a read that fails at decapsulation, at key unwrap or at content
\* decryption returns the error every other read of the same bytes returns
\* that fails at any of the three stages.
C13_OneDecryptionError ==
    (IsRead /\ FailedStage(last.calls) # "") =>
        \A r \in Readers :
            FailedStage(ReadBy(r).calls) # "" => ReadBy(r).res = last.out

C13_Witness ==
    /\ IsRead
    /\ FailedStage(last.calls) = "decrypt"
    /\ \E r \in Readers : FailedStage(ReadBy(r).calls) = "decap"
    /\ \E r \in Readers : FailedStage(ReadBy(r).calls) = "unwrap"
    /\ ~last.out.ok

\* C14: the envelope a builder made from kem_recipient, content and build,
\* read back as built by one of its recipients with its private key, opens,
\* and get_content returns the plaintext given to content, whatever its
\* length and the content cipher.
C14_EnvelopeRoundTrip ==
    (ReaderIsRecipient /\ env.how = "built") =>
        /\ last.out.ok
        /\ get_content(last.out.val) = bld.plaintext

C14_Witness ==
    /\ ReaderIsRecipient
    /\ env.how = "built"
    /\ bld.cea = CeaOf("Aes192Cbc")
    /\ ByteLen(bld.plaintext) = 4096
    /\ ByteLen(bld.encrypted_content.bytes) = 4112
    /\ last.out.ok
    /\ get_content(last.out.val) = Plaintext(4096)

\* C15: the envelope built has the version its structure asks for, V3 with
\* a KEM recipient; a successful read returns that version from get_version
\* and no originator info.
C15_VersionDerived ==
    /\ env.has =>
        /\ Len(bld.recips) >= 1
        /\ ParseEnvelope(env.der).val.version = "V3"
    /\ (IsRead /\ last.out.ok) =>
        /\ get_version(last.out.val) = "V3"
        /\ get_version(last.out.val) = ParseEnvelope(env.der).val.version
        /\ get_originator_info(last.out.val) = NoOriginatorInfo

C15_Witness ==
    /\ IsRead
    /\ last.out.ok
    /\ Len(get_recipient_infos(last.out.val)) = 2
    /\ get_unprotected_attrs(last.out.val).some
    /\ get_version(last.out.val) = "V3"
    /\ get_originator_info(last.out.val) = NoOriginatorInfo

\* C16: after a successful read the unprotected attributes are as many as
\* the builder accepted, each of them is there with its OID, value tag and
\* value bytes, and the recipient infos are as many as the recipients added.
C16_AttributesAndRecipients ==
    (IsRead /\ last.out.ok) =>
        LET parsed == get_unprotected_attrs(last.out.val)
        IN  /\ parsed.some <=> env.attributes # <<>>
            /\ Len(parsed.attrs) = Len(env.attributes)
            /\ \A k \in 1..Len(env.attributes) :
                    \E j \in 1..Len(parsed.attrs) :
                        /\ parsed.attrs[j].oid = env.attributes[k].oid
                        /\ Len(parsed.attrs[j].values) = 1
                        /\ parsed.attrs[j].values[1].tag = env.attributes[k].values[1].tag
                        /\ parsed.attrs[j].values[1].value
                               = env.attributes[k].values[1].value
            /\ Len(get_recipient_infos(last.out.val)) = env.recipients

C16_Witness ==
    /\ IsRead
    /\ last.out.ok
    /\ env.attributes = <<AttributeOf(7), AttributeOf(6)>>
    /\ get_unprotected_attrs(last.out.val).attrs = <<AttributeOf(6), AttributeOf(7)>>
    /\ env.recipients = 2
    /\ Len(get_recipient_infos(last.out.val)) = 2

\* the certificate of the last read is the certificate of no recipient
ReaderIsNoRecipient ==
    /\ IsRead
    /\ \A k \in 1..Len(bld.recips) : bld.recips[k].rid # ReaderCert.rid

\* C17: a read with a certificate that matches no KemRecipientInfo of the
\* envelope fails with InvalidContent and returns no content, whatever
\* private key comes with it.
C17_NonMemberRejected ==
    ReaderIsNoRecipient => last.out = Err("InvalidContent")

C17_Witness ==
    /\ ReaderIsNoRecipient
    /\ env.how = "built"
    /\ \E i \in Seeds : ReaderCert = CertificateOf(i) /\ ReaderKey = PrivateKeyOf(i)
    /\ last.out = Err("InvalidContent")
    /\ last.calls = <<>>

\* C18: a builder has one content-encryption key, generated when its first
\* recipient is added: every KemRecipientInfo wraps that key, the content
\* is encrypted under it, and every recipient of the envelope built reads
\* the same plaintext.
C18_OneCekPerBuilder ==
    (bld # NoBuilder /\ Len(bld.recips) >= 1) =>
        /\ bld.cek = GenerateCek(bld.cea, 1)
        /\ \A k \in 1..Len(bld.recips) :
               bld.recips[k].encrypted_key[1].src[5] = bld.cek
        /\ bld.has_content => bld.encrypted_content.bytes[1].src[4] = bld.cek
        /\ env.has =>
               \A i \in Seeds :
                   (\E k \in 1..Len(bld.recips) : bld.recips[k].rid = CertificateOf(i).rid)
                   => FromBytesForKemRecipient(env.der, CertificateOf(i),
                                               PrivateKeyOf(i)).res
                        = Ok([version |-> "V3",
                              originator_info |-> NoOriginatorInfo,
                              recip_infos |-> bld.recips,
                              content |-> bld.plaintext,
                              unprotected_attrs |->
                                  EnvelopedDataOf(bld).unprotected_attrs])

C18_Witness ==
    /\ ReaderIsRecipient
    /\ env.how = "built"
    /\ Len(bld.recips) = 2
    /\ ReaderCert.rid = bld.recips[2].rid
    /\ bld.recips[1].encrypted_key # bld.recips[2].encrypted_key
    /\ last.out.ok
    /\ get_content(last.out.val) = Plaintext(4097)

\* C19: a call of build succeeds exactly when a recipient has been added
\* and the content has been set, and then leaves the envelope it returns;
\* a call that fails leaves no envelope and the builder as it was.  No
\* envelope exists that was not built that way.
C19_BuildProtocol ==
    /\ [](env.has => (env.recipients >= 1 /\ bld.has_content /\ bld.phase = "Built"))
    /\ [][(last'.op = "build" /\ last' # last) =>
            /\ last'.out.ok <=> (env.recipients >= 1 /\ bld.has_content)
            /\ last'.out.ok =>
                (env'.has /\ env'.der = last'.out.val /\ bld'.phase = "Built")
            /\ ~last'.out.ok => (~env'.has /\ env' = env /\ bld' = bld)]_vars

C19_Witness ==
    /\ last.op = "build"
    /\ ~last.out.ok
    /\ bld.has_content
    /\ env.recipients = 0
    /\ ~env.has

-----------------------------------------------------------------------------
(* The DSA registry (src/dsa/common/dsa_trait.rs), ML-DSA                  *)
(* (src/dsa/ml_dsa.rs) and the DSA side of PublicKey                       *)
(* (src/asn1/public_key.rs)                                                *)

\* the ML-DSA variants and the sizes fips204 fixes for them
MlDsaTypes == {"MlDsa44", "MlDsa65", "MlDsa87"}
PK_LEN(t) == CASE t = "MlDsa44" -> 1312 [] t = "MlDsa65" -> 1952 [] OTHER -> 2592
SIG_LEN(t) == CASE t = "MlDsa44" -> 2420 [] t = "MlDsa65" -> 3309 [] OTHER -> 4627

\* the sizes of a DSA type: a composite's are those of ML-DSA-44 and of
\* Ed25519 (32-byte key, 64-byte signature) together
DsaPkLen(t) == IF t \in MlDsaTypes THEN PK_LEN(t) ELSE PK_LEN("MlDsa44") + 32
DsaSigLen(t) == IF t \in MlDsaTypes THEN SIG_LEN(t) ELSE SIG_LEN("MlDsa44") + 64

\* Self::new of the two managers: MlDsaManager::new wraps the DsaInfo of
\* any type; DsaManager::new builds the manager of a registered type
MlDsaManagerNew(dsa_type) == Ok([manager |-> "MlDsaManager", dsa_type |-> dsa_type])
DsaManagerNew(dsa_type) == Ok([manager |-> "DsaManager", dsa_type |-> dsa_type])

Managers == {"MlDsaManager", "DsaManager"}

SelfNew(manager, dsa_type) ==
    IF manager = "MlDsaManager" THEN MlDsaManagerNew(dsa_type)
    ELSE DsaManagerNew(dsa_type)

\* Dsa::new_from_oid: the first type of DsaType::all() with this OID
new_from_oid_Guess(manager, oid) ==
    LET found == {i \in 1..Len(DsaTypeAll) : get_oid(DsaTypeAll[i]) = oid}
    IN  IF found = {} THEN SelfNew(manager, DsaTypeAll[1])
        ELSE SelfNew(manager, DsaTypeAll[CHOOSE i \in found : \A j \in found : i <= j])

new_from_oid(manager, oid) ==
    LET found == {i \in 1..Len(DsaTypeAll) : get_oid(DsaTypeAll[i]) = oid}
    IN  IF found = {} THEN Err("InvalidOid")
        ELSE SelfNew(manager, DsaTypeAll[CHOOSE i \in found : \A j \in found : i <= j])

\* the key pair of a DSA type from a seed, and the signature of a message
\* under it; a composite's key and signature are those of its pair
DsaPk(t, seed) == Atom(<<"dsa-pk", t, seed>>, DsaPkLen(t))
DsaSig(t, seed, msg) == Atom(<<"dsa-sig", t, seed, msg>>, DsaSigLen(t))

\* PublicKey::try_from_bytes of fips204: the bytes decode to a public key
PkDecodes(t, pk) == \E s \in Seeds : pk = DsaPk(t, s)

\* verify_ml!
verify_ml(t, pk, msg, signature) ==
    IF ByteLen(pk) # PK_LEN(t) THEN Out(Err("InvalidPublicKey"), <<>>)
    ELSE IF ByteLen(signature) # SIG_LEN(t) THEN Out(Err("InvalidSignature"), <<>>)
    ELSE IF ~PkDecodes(t, pk)
         THEN Out(Err("InvalidPublicKey"), <<Call("try_from_bytes", <<pk>>, FALSE)>>)
    ELSE LET valid == \E s \in Seeds : pk = DsaPk(t, s) /\ signature = DsaSig(t, s, msg)
         IN  Out(Ok(valid), <<Call("try_from_bytes", <<pk>>, TRUE),
                              Call("verify", <<pk, msg, signature>>, valid)>>)

\* MlDsaManager::verify
MlDsaManagerVerify(dsa, pk, msg, signature) ==
    IF dsa.dsa_type \in MlDsaTypes THEN verify_ml(dsa.dsa_type, pk, msg, signature)
    ELSE Out(Err("NotImplemented"), <<>>)

\* DsaManager::verify: the verification of the manager of the type; a
\* composite verifies the pair of signatures under the pair of keys
DsaManagerVerify(dsa, pk, msg, signature) ==
    IF dsa.dsa_type \in MlDsaTypes THEN MlDsaManagerVerify(dsa, pk, msg, signature)
    ELSE IF ~PkDecodes(dsa.dsa_type, pk) THEN Out(Err("InvalidPublicKey"), <<>>)
    ELSE LET valid == \E s \in Seeds :
                          /\ pk = DsaPk(dsa.dsa_type, s)
                          /\ signature = DsaSig(dsa.dsa_type, s, msg)
         IN  Out(Ok(valid), <<Call("verify", <<pk, msg, signature>>, valid)>>)

\* PublicKey::verify from the lookup on: a failed lookup is InvalidOid, a
\* failed verification is false
VerifyResolved_Propagate(dsa, key, message, signature) ==
    IF ~dsa.ok THEN Out(Err("InvalidOid"), <<Call("new_from_oid", <<>>, FALSE)>>)
    ELSE LET v == DsaManagerVerify(dsa.val, key, message, signature)
         IN  Out(v.res, <<Call("new_from_oid", <<>>, TRUE)>> \o v.calls)

VerifyResolved(dsa, key, message, signature) ==
    IF ~dsa.ok THEN Out(Err("InvalidOid"), <<Call("new_from_oid", <<>>, FALSE)>>)
    ELSE LET v == DsaManagerVerify(dsa.val, key, message, signature)
         IN  Out(Ok(IF v.res.ok THEN v.res.val ELSE FALSE),
                 <<Call("new_from_oid", <<>>, TRUE)>> \o v.calls)

\* PublicKey::verify
PublicKeyVerify(oid, key, message, signature) ==
    IF ~is_dsa_oid(oid) THEN Out(Err("UnsupportedOperation"), <<>>)
    ELSE VerifyResolved(new_from_oid("DsaManager", oid), key, message, signature)

-----------------------------------------------------------------------------
(* The state machine of the registry: a caller that looks managers up by   *)
(* OID and verifies and encapsulates with PublicKey objects of any OID.    *)
(* last is the last call; kp is the KEM key pair the caller holds.  A      *)
(* lookup and a verification depend on their arguments alone, so each is   *)
(* applied once, to arguments of the caller's choice.                      *)

DsaOids == {get_oid(DsaTypeAll[i]) : i \in 1..Len(DsaTypeAll)}
LookupOids == DsaOids \cup Oids \cup {"", "oid:MlDsa4", "oid:MlDsa44 "}

DsaMessages == {"m0", "m1"}
DsaKeyInputs ==
    {DsaPk(t, s) : t \in {DsaTypeAll[i] : i \in 1..Len(DsaTypeAll)}, s \in Seeds}
    \cup {Junk(PK_LEN("MlDsa44")), Slice(DsaPk("MlDsa44", 1), 0, PK_LEN("MlDsa44") - 1)}
DsaSigInputs ==
    {DsaSig(t, s, m) : t \in {DsaTypeAll[i] : i \in 1..Len(DsaTypeAll)}, s \in Seeds, m \in DsaMessages}
    \cup {<<>>, Junk(SIG_LEN("MlDsa44"))}

NewFromOid ==
    \E manager \in Managers, oid \in LookupOids :
        /\ last.op = "none"
        /\ last' = Done("new_from_oid", <<manager, oid>>,
                        Out(new_from_oid(manager, oid), <<>>))
        /\ UNCHANGED <<kp, enc, ck, derIn, derOut, bld, env>>

PkVerify ==
    \E oid \in LookupOids, key \in DsaKeyInputs,
       message \in DsaMessages, signature \in DsaSigInputs :
        /\ last.op = "none"
        /\ last' = Done("PublicKey.verify", <<oid, key, message, signature>>,
                        PublicKeyVerify(oid, key, message, signature))
        /\ UNCHANGED <<kp, enc, ck, derIn, derOut, bld, env>>

InitRegistry ==
    /\ \E i \in Seeds : kp = KeyOf(XWingKeyGenWithRng(RandBytes(i)))
    /\ enc = NoEnc
    /\ last = NoCall
    /\ ck = NoComposite
    /\ derIn = NoInput
    /\ derOut = NoDecode
    /\ bld = NoBuilder
    /\ env = NoEnvelope

NextRegistry == NewFromOid \/ PkVerify \/ PkEncap

SpecRegistry == InitRegistry /\ [][NextRegistry]_vars

-----------------------------------------------------------------------------
(* Properties of the registry *)

\* the errors a lookup can fail with: no type has the OID, or the manager
\* of the type cannot be built
LookupErrors == {"InvalidOid", "NotImplemented"}

\* C20: Dsa::new_from_oid(oid) returns an instance of the manager it was
\* called on, built for the type of DsaType::all() whose OID equals oid,
\* and Err(InvalidOid) for every identifier that no type has; it never
\* returns an instance for a type with another OID.  PublicKey::verify and
\* PublicKey::encap fail with InvalidOid exactly when the lookup failed,
\* whatever the lookup failed with.
C20_RegistryLookup ==
    /\ last.op = "new_from_oid" =>
        /\ last.arg[2] \in DsaOids =>
            /\ last.out.ok
            /\ last.out.val.manager = last.arg[1]
            /\ get_oid(last.out.val.dsa_type) = last.arg[2]
        /\ last.arg[2] \notin DsaOids => last.out = Err("InvalidOid")
    /\ last.op = "PublicKey.verify" =>
        (last.out = Err("InvalidOid")
            <=> \E i \in 1..Len(last.calls) :
                    last.calls[i].fn = "new_from_oid" /\ ~last.calls[i].ret)
    /\ last.op = "PublicKey.encap" =>
        (last.out = Err("InvalidOid")
            <=> (is_kem_oid(last.arg[1]) /\ last.arg[1] # OID_XWING))
    /\ \A e \in LookupErrors, key \in DsaKeyInputs :
        VerifyResolved(Err(e), key, "m0", <<>>).res = Err("InvalidOid")
    /\ \A oid \in LookupOids \ {OID_XWING}, key \in KeyInputs :
        KemManagerEncap(oid, key, 1).res = Err("InvalidOid")

C20_Witness ==
    /\ last.op = "new_from_oid"
    /\ last.arg[2] = "oid:MlDsa4"
    /\ last.out = Err("InvalidOid")

-----------------------------------------------------------------------------
(* ML-DSA signing and key derivation (src/dsa/ml_dsa.rs)                   *)

SK_LEN(t) == CASE t = "MlDsa44" -> 2560 [] t = "MlDsa65" -> 4032 [] OTHER -> 4896
DsaSkLen(t) == IF t \in MlDsaTypes THEN SK_LEN(t) ELSE SK_LEN("MlDsa44") + 32

\* the secret key of the pair DsaPk(t, seed) belongs to
DsaSk(t, seed) == Atom(<<"dsa-sk", t, seed>>, DsaSkLen(t))

\* PrivateKey::try_from_bytes of fips204: the bytes decode to a secret key
SkDecodes(t, sk) == \E s \in Seeds : sk = DsaSk(t, s)
SeedOfSk(t, sk) == CHOOSE s \in Seeds : sk = DsaSk(t, s)

\* sign_ml!
sign_ml_DecodeFirst(t, sk, msg) ==
    IF ~SkDecodes(t, sk)
    THEN Out(Err("SignatureFailed"), <<Call("try_from_bytes", <<sk>>, FALSE)>>)
    ELSE Out(Ok(DsaSig(t, SeedOfSk(t, sk), msg)),
             <<Call("try_from_bytes", <<sk>>, TRUE), Call("try_sign", <<sk, msg>>, TRUE)>>)

sign_ml(t, sk, msg) ==
    IF ByteLen(sk) # SK_LEN(t) THEN Out(Err("InvalidPrivateKey"), <<>>)
    ELSE IF ~SkDecodes(t, sk)
         THEN Out(Err("SignatureFailed"), <<Call("try_from_bytes", <<sk>>, FALSE)>>)
    ELSE Out(Ok(DsaSig(t, SeedOfSk(t, sk), msg)),
             <<Call("try_from_bytes", <<sk>>, TRUE), Call("try_sign", <<sk, msg>>, TRUE)>>)

\* get_public_key!
get_public_key(t, sk) ==
    IF ByteLen(sk) # SK_LEN(t) THEN Out(Err("InvalidPrivateKey"), <<>>)
    ELSE IF ~SkDecodes(t, sk)
         THEN Out(Err("InvalidPrivateKey"), <<Call("try_from_bytes", <<sk>>, FALSE)>>)
    ELSE Out(Ok(DsaPk(t, SeedOfSk(t, sk))),
             <<Call("try_from_bytes", <<sk>>, TRUE), Call("get_public_key", <<sk>>, TRUE)>>)

\* MlDsaManager::key_gen_with_rng; rnd is what the generator gives
MlDsaManagerKeyGenWithRng(dsa, rnd) ==
    IF dsa.dsa_type \notin MlDsaTypes THEN Out(Err("NotImplemented"), <<>>)
    ELSE IF ~rnd.ok
         THEN Out(Err("KeyPairGenerationFailed"),
                  <<Call("try_keygen_with_rng", <<>>, FALSE)>>)
    ELSE Out(Ok(<<DsaPk(dsa.dsa_type, rnd.val), DsaSk(dsa.dsa_type, rnd.val)>>),
             <<Call("try_keygen_with_rng", <<>>, TRUE)>>)

\* MlDsaManager::key_gen: the generator is seeded from the system's entropy
MlDsaManagerKeyGen(dsa, entropy) == MlDsaManagerKeyGenWithRng(dsa, Ok(entropy))

\* MlDsaManager::sign
MlDsaManagerSign_AlwaysMlDsa44(dsa, sk, msg) ==
    IF dsa.dsa_type \in MlDsaTypes THEN sign_ml("MlDsa44", sk, msg)
    ELSE Out(Err("NotImplemented"), <<>>)

MlDsaManagerSign(dsa, sk, msg) ==
    IF dsa.dsa_type \in MlDsaTypes THEN sign_ml(dsa.dsa_type, sk, msg)
    ELSE Out(Err("NotImplemented"), <<>>)

\* MlDsaManager::get_public_key
MlDsaManagerGetPublicKey(dsa, sk) ==
    IF dsa.dsa_type \in MlDsaTypes THEN get_public_key(dsa.dsa_type, sk)
    ELSE Out(Err("NotImplemented"), <<>>)

\* DsaManager::sign and DsaManager::get_public_key: those of the manager
\* of the type; a composite signs and derives with its pair of keys
DsaManagerSign(dsa, sk, msg) ==
    IF dsa.dsa_type \in MlDsaTypes THEN MlDsaManagerSign(dsa, sk, msg)
    ELSE IF ~SkDecodes(dsa.dsa_type, sk) THEN Out(Err("InvalidPrivateKey"), <<>>)
    ELSE Out(Ok(DsaSig(dsa.dsa_type, SeedOfSk(dsa.dsa_type, sk), msg)),
             <<Call("try_sign", <<sk, msg>>, TRUE)>>)

DsaManagerGetPublicKey(dsa, sk) ==
    IF dsa.dsa_type \in MlDsaTypes THEN MlDsaManagerGetPublicKey(dsa, sk)
    ELSE IF ~SkDecodes(dsa.dsa_type, sk) THEN Out(Err("InvalidPrivateKey"), <<>>)
    ELSE Out(Ok(DsaPk(dsa.dsa_type, SeedOfSk(dsa.dsa_type, sk))),
             <<Call("get_public_key", <<sk>>, TRUE)>>)

-----------------------------------------------------------------------------
(* Key objects: PrivateKey (src/asn1/private_key.rs) and PublicKey         *)
(* (src/asn1/public_key.rs).  A key object is its OID, its key material    *)
(* and its is_composite flag.                                              *)

\* asn_util::is_valid_kem_or_dsa_oid and asn_util::is_composite_kem_or_dsa_oid
is_valid_kem_or_dsa_oid(oid) == is_kem_oid(oid) \/ is_dsa_oid(oid)
is_composite_kem_or_dsa_oid(oid) == oid \in CompositeOids

\* strings that are no dotted-decimal object identifier
UnparsableOids == {"", "MlDsa44"}

\* oid.parse::<ObjectIdentifier>()
ParseOid(oid) == IF oid \in UnparsableOids THEN Err("oid") ELSE Ok(oid)

\* the byte string made of the given byte values, and the byte values of
\* a byte string that is made of known values
Literal(seq) == Atom(<<"bytes", Len(seq), seq>>, Len(seq))
ByteValues(b) ==
    IF b = <<>> THEN Ok(<<>>)
    ELSE IF WholeOf(b, "bytes", 2) THEN Ok(b[1].src[3])
    ELSE Err("opaque")

\* pem.tag() of a parsed PEM
PemTag(d) == d[1].src[3]

\* CompositePrivateKey: the codec of a pair of component keys, as for the
\* public key, failing with InvalidPrivateKey
MapErr(r, e) == IF r.ok THEN r ELSE Err(e)

CompositePrivateKeyToDer(composite_sk) == MapErr(ToDer(composite_sk), "InvalidPrivateKey")

CompositePrivateKeyFromDer(oid, der) == MapErr(FromDer(oid, der), "InvalidPrivateKey")

\* PrivateKey::new
PrivateKeyNew(oid, key) ==
    IF ~is_valid_kem_or_dsa_oid(oid) THEN Err("InvalidPrivateKey")
    ELSE Ok([oid |-> oid, private_key |-> key,
             is_composite |-> is_composite_kem_or_dsa_oid(oid)])

\* PrivateKey::from_composite
PrivateKeyOfCompositeDer(oid, d) ==
    IF ~d.ok THEN Err("InvalidPrivateKey")
    ELSE Ok([oid |-> oid, private_key |-> Literal(d.val), is_composite |-> TRUE])

PrivateKeyFromComposite(composite_sk) ==
    PrivateKeyOfCompositeDer(composite_sk.oid, CompositePrivateKeyToDer(composite_sk))

\* PrivateKey::to_der: the PrivateKeyInfo of the OID and the key material,
\* without algorithm parameters and without the public key
PrivateKeyToDer(k) ==
    IF ~ParseOid(k.oid).ok THEN Err("InvalidPrivateKey")
    ELSE Ok(DerEncode("PrivateKeyInfo",
                      [oid |-> k.oid, parameters |-> "None",
                       private_key |-> k.private_key, public_key |-> "None"],
                      ByteLen(k.private_key) + 16))

\* PEM with CRLF line endings, the default of pem::encode; to_pem asks
\* for LF
PemCrlf(label, contents) ==
    LET n == ByteLen(PemEncode(label, contents)) + 8
    IN  Atom(<<"pem", n, label, contents, "CRLF">>, n)

\* PrivateKey::to_pem
PrivateKeyToPem_DefaultLineEnding(k) ==
    LET der == PrivateKeyToDer(k)
    IN  IF ~der.ok THEN Err("InvalidPrivateKey")
        ELSE Ok(PemCrlf("PRIVATE KEY", der.val))

PrivateKeyToPem(k) ==
    LET der == PrivateKeyToDer(k)
    IN  IF ~der.ok THEN Err("InvalidPrivateKey")
        ELSE Ok(PemEncode("PRIVATE KEY", der.val))

\* PrivateKey::from_der
PrivateKeyFromDer_AnyOid(der) ==
    LET info == DerDecode("PrivateKeyInfo", der)
    IN  IF ~info.ok THEN Err("InvalidPrivateKey")
        ELSE Ok([oid |-> info.val.oid, private_key |-> info.val.private_key,
                 is_composite |-> is_composite_kem_or_dsa_oid(info.val.oid)])

PrivateKeyFromDer(der) ==
    LET info == DerDecode("PrivateKeyInfo", der)
    IN  IF ~info.ok THEN Err("InvalidPrivateKey")
        ELSE IF ~is_valid_kem_or_dsa_oid(info.val.oid) THEN Err("InvalidPrivateKey")
        ELSE Ok([oid |-> info.val.oid, private_key |-> info.val.private_key,
                 is_composite |-> is_composite_kem_or_dsa_oid(info.val.oid)])

\* PrivateKey::from_pem
PrivateKeyFromPem(pem) ==
    IF ~PemParse(pem).ok THEN Err("InvalidPrivateKey")
    ELSE IF PemTag(pem) # "PRIVATE KEY" THEN Err("InvalidPrivateKey")
    ELSE PrivateKeyFromDer(PemParse(pem).val)

\* std::str::from_utf8: PEM is text, an encoding or a key is not
IsUtf8(b) == b = <<>> \/ b[1].src[1] \in {"pem", "text"}

\* PrivateKey::from_file; read is what std::fs::read gives
PrivateKeyFromFile(read) ==
    IF ~read.ok THEN Err("FileReadError")
    ELSE IF PrivateKeyFromDer(read.val).ok THEN PrivateKeyFromDer(read.val)
    ELSE IF ~IsUtf8(read.val) THEN Err("InvalidCertificate")
    ELSE IF PrivateKeyFromPem(read.val).ok THEN PrivateKeyFromPem(read.val)
    ELSE Err("InvalidPrivateKey")

\* PrivateKey::sign
PrivateKeySign(k, data) ==
    IF ~is_dsa_oid(k.oid) THEN Out(Err("UnsupportedOperation"), <<>>)
    ELSE LET dsa == new_from_oid("DsaManager", k.oid)
         IN  IF ~dsa.ok THEN Out(Err(dsa.err), <<Call("new_from_oid", <<>>, FALSE)>>)
             ELSE LET s == DsaManagerSign(dsa.val, k.private_key, data)
                  IN  Out(s.res, <<Call("new_from_oid", <<>>, TRUE)>> \o s.calls)

\* PublicKey::new
PublicKeyNew(oid, key) ==
    IF ~is_valid_kem_or_dsa_oid(oid) THEN Err("InvalidPublicKey")
    ELSE Ok([oid |-> oid, key |-> key,
             is_composite |-> is_composite_kem_or_dsa_oid(oid)])

\* the end of a thread of control by panic!, or by unwrap() of an Err
Panic == Err("panic")

\* impl Keypair for PrivateKey: verifying_key
VerifyingKey(k) ==
    IF ~is_dsa_oid(k.oid) THEN Out(Panic, <<>>)
    ELSE LET dsa == new_from_oid("DsaManager", k.oid)
         IN  IF ~dsa.ok THEN Out(Panic, <<Call("new_from_oid", <<>>, FALSE)>>)
             ELSE LET pk == DsaManagerGetPublicKey(dsa.val, k.private_key)
                  IN  IF ~pk.res.ok
                      THEN Out(Panic, <<Call("new_from_oid", <<>>, TRUE)>> \o pk.calls)
                      ELSE IF ~PublicKeyNew(k.oid, pk.res.val).ok
                      THEN Out(Panic, <<Call("new_from_oid", <<>>, TRUE)>> \o pk.calls)
                      ELSE Out(PublicKeyNew(k.oid, pk.res.val),
                               <<Call("new_from_oid", <<>>, TRUE)>> \o pk.calls)

\* PublicKey::from_composite
PublicKeyOfCompositeDer(oid, d) ==
    IF ~d.ok THEN Err("InvalidPublicKey")
    ELSE Ok([oid |-> oid, key |-> Literal(d.val), is_composite |-> TRUE])

PublicKeyFromComposite(composite_pk) ==
    PublicKeyOfCompositeDer(composite_pk.oid, ToDer(composite_pk))

\* PublicKey::to_bitstring and PublicKey::to_der: the PublicKeyInfo of the
\* OID, without algorithm parameters, and the key, a bit string without
\* unused bits
PublicKeyToDer(k) ==
    IF ~ParseOid(k.oid).ok THEN Err("InvalidPublicKey")
    ELSE Ok(DerEncode("PublicKeyInfo",
                      [oid |-> k.oid, parameters |-> "None",
                       public_key |-> BitStringOf(0, k.key)],
                      ByteLen(k.key) + 16))

\* PublicKey::to_pem
PublicKeyToPem(k) ==
    LET der == PublicKeyToDer(k)
    IN  IF ~der.ok THEN Err("InvalidPublicKey")
        ELSE Ok(PemEncode("PUBLIC KEY", der.val))

\* PublicKey::from_der
PublicKeyFromDer(der) ==
    LET info == DerDecode("PublicKeyInfo", der)
    IN  IF ~info.ok THEN Err("InvalidPublicKey")
        ELSE IF ~AsBytes(info.val.public_key).ok THEN Err("InvalidPublicKey")
        ELSE IF ~is_valid_kem_or_dsa_oid(info.val.oid) THEN Err("InvalidPublicKey")
        ELSE Ok([oid |-> info.val.oid, key |-> AsBytes(info.val.public_key).val,
                 is_composite |-> is_composite_kem_or_dsa_oid(info.val.oid)])

\* PublicKey::from_pem
PublicKeyFromPem(pem) ==
    IF ~PemParse(pem).ok THEN Err("InvalidPublicKey")
    ELSE IF PemTag(pem) # "PUBLIC KEY" THEN Err("InvalidPublicKey")
    ELSE PublicKeyFromDer(PemParse(pem).val)

\* test_sk_serialization_deserialization: k.to_der(), from_der of it, and
\* the PEM and the DER of the key read back
SkSerialization(k) ==
    IF ~PrivateKeyToDer(k).ok THEN Err("InvalidPrivateKey")
    ELSE IF ~PrivateKeyFromDer(PrivateKeyToDer(k).val).ok THEN Err("InvalidPrivateKey")
    ELSE IF ~PrivateKeyToPem(PrivateKeyFromDer(PrivateKeyToDer(k).val).val).ok
    THEN Err("InvalidPrivateKey")
    ELSE Ok([key |-> PrivateKeyFromDer(PrivateKeyToDer(k).val).val,
             der |-> PrivateKeyToDer(k).val,
             der2 |-> PrivateKeyToDer(PrivateKeyFromDer(PrivateKeyToDer(k).val).val).val,
             pem |-> PrivateKeyToPem(PrivateKeyFromDer(PrivateKeyToDer(k).val).val).val])

\* test_composite_private_key: the key bytes through
\* CompositePrivateKey::from_der and from_composite, and the PEM of the result
PemOfSk(k2) ==
    IF ~k2.ok THEN k2
    ELSE IF ~PrivateKeyToPem(k2.val).ok THEN Err("InvalidPrivateKey")
    ELSE Ok([key |-> k2.val, pem |-> PrivateKeyToPem(k2.val).val])

SkOfComposite(c) ==
    IF ~c.ok THEN Err("InvalidPrivateKey") ELSE PemOfSk(PrivateKeyFromComposite(c.val))

SkThroughComposite(k) ==
    IF ~ByteValues(k.private_key).ok THEN Err("InvalidPrivateKey")
    ELSE SkOfComposite(CompositePrivateKeyFromDer(k.oid, ByteValues(k.private_key).val))

\* test_composite_public_key
PemOfPub(k2) ==
    IF ~k2.ok THEN k2
    ELSE IF ~PublicKeyToPem(k2.val).ok THEN Err("InvalidPublicKey")
    ELSE Ok([key |-> k2.val, pem |-> PublicKeyToPem(k2.val).val])

PubOfComposite(c) ==
    IF ~c.ok THEN Err("InvalidPublicKey") ELSE PemOfPub(PublicKeyFromComposite(c.val))

PubThroughComposite(k) ==
    IF ~ByteValues(k.key).ok THEN Err("InvalidPublicKey")
    ELSE PubOfComposite(FromDer(k.oid, ByteValues(k.key).val))

-----------------------------------------------------------------------------
(* The state machine of the key objects: a caller that makes a key object  *)
(* with one of the constructors and then uses it once.  last is the last   *)
(* call; after a constructor its result is the key object at hand.         *)

\* the OIDs a caller meets: a KEM's, a DSA's, a composite DSA's and one
\* that is registered for nothing (RSA)
KeyOids == {OID_XWING, OID_MLDSA44, "oid:MlDsa44-Ed25519", OID_UNKNOWN}

\* composite keys a caller builds with new(oid, a, b)
CompositePairs ==
    {CompositePublicKeyNew(oid, a, <<TAG_BIT_STRING>>) :
        oid \in {"oid:MlDsa44-Ed25519", OID_MLDSA44, OID_UNKNOWN},
        a \in {<<0>>, <<TAG_BIT_STRING, 0>>}}

\* key material: of ML-DSA-44, of XWing (the generated pair kp), of a
\* composite, and of nothing
SkMaterial ==
    {DsaSk("MlDsa44", 1), kp.sk, Junk(SK_LEN("MlDsa44") - 1)}
    \cup {Literal(ToDer(c).val) : c \in CompositePairs}
    \cup {Literal(<<TAG_SEQUENCE, 0>>)}
PkMaterial ==
    {DsaPk("MlDsa44", 1), kp.pk, Junk(PK_LEN("MlDsa44") - 1)}
    \cup {Literal(ToDer(c).val) : c \in CompositePairs}
    \cup {Literal(<<TAG_SEQUENCE, 0>>)}

\* encodings of PrivateKeyInfo: those to_der writes, for every OID, and
\* those with algorithm parameters or with the public key
SkInfos ==
    [oid : KeyOids, parameters : {"None"}, private_key : SkMaterial, public_key : {"None"}]
    \cup [oid : {OID_MLDSA44}, parameters : {"None", "NULL"},
          private_key : {DsaSk("MlDsa44", 1)}, public_key : {"None", "Some"}]
SkDer(info) ==
    DerEncode("PrivateKeyInfo", info,
              ByteLen(info.private_key) + 16
                + (IF info.parameters = "None" THEN 0 ELSE 2)
                + (IF info.public_key = "None" THEN 0 ELSE 4))

PkInfos ==
    [oid : KeyOids, parameters : {"None"},
     public_key : {BitStringOf(0, m) : m \in PkMaterial}]
    \cup [oid : {OID_MLDSA44}, parameters : {"None", "NULL"},
          public_key : {BitStringOf(u, DsaPk("MlDsa44", 1)) : u \in {0, 1}}]
PkDer(info) ==
    DerEncode("PublicKeyInfo", info,
              ByteLen(info.public_key.bytes) + 16
                + (IF info.parameters = "None" THEN 0 ELSE 2))

\* the byte strings handed to from_der: encodings of either structure,
\* a truncated one, bytes that encode nothing, and none
DerInputs ==
    {SkDer(i) : i \in SkInfos} \cup {PkDer(i) : i \in PkInfos}
    \cup {Slice(SkDer(i), 0, 8) : i \in SkInfos}
    \cup {Junk(16), <<>>}

\* the texts handed to from_pem: PEM under three tags, with LF and with
\* CRLF line endings, text without
\* headers, text with headers around bad base64, and the empty text
PemInputs ==
    {PemEncode(l, d) : l \in {"PRIVATE KEY", "PUBLIC KEY", "CERTIFICATE"}, d \in DerInputs}
    \cup {PemCrlf(l, d) : l \in {"PRIVATE KEY", "PUBLIC KEY"},
                          d \in {SkDer(i) : i \in SkInfos} \cup {PkDer(i) : i \in PkInfos}}
    \cup {Atom(<<"text", t>>, 64) : t \in {"no headers", "bad base64"}}
    \cup {<<>>}

SkNew ==
    /\ last.op = "none"
    /\ \E oid \in KeyOids, key \in SkMaterial :
        last' = Done("PrivateKey.new", <<oid, key>>, Out(PrivateKeyNew(oid, key), <<>>))
    /\ UNCHANGED <<kp, enc, ck, derIn, derOut, bld, env>>

SkFromDer ==
    /\ last.op = "none"
    /\ \E der \in DerInputs :
        last' = Done("PrivateKey.from_der", <<der>>, Out(PrivateKeyFromDer(der), <<>>))
    /\ UNCHANGED <<kp, enc, ck, derIn, derOut, bld, env>>

SkFromPem ==
    /\ last.op = "none"
    /\ \E pem \in PemInputs :
        last' = Done("PrivateKey.from_pem", <<pem>>, Out(PrivateKeyFromPem(pem), <<>>))
    /\ UNCHANGED <<kp, enc, ck, derIn, derOut, bld, env>>

SkFromFile ==
    /\ last.op = "none"
    /\ \E read \in {Err("io")} \cup {Ok(b) : b \in DerInputs \cup PemInputs} :
        last' = Done("PrivateKey.from_file", <<read>>, Out(PrivateKeyFromFile(read), <<>>))
    /\ UNCHANGED <<kp, enc, ck, derIn, derOut, bld, env>>

SkFromComposite ==
    /\ last.op = "none"
    /\ \E c \in CompositePairs :
        last' = Done("PrivateKey.from_composite", <<c>>, Out(PrivateKeyFromComposite(c), <<>>))
    /\ UNCHANGED <<kp, enc, ck, derIn, derOut, bld, env>>

PubNew ==
    /\ last.op = "none"
    /\ \E oid \in KeyOids, key \in PkMaterial :
        last' = Done("PublicKey.new", <<oid, key>>, Out(PublicKeyNew(oid, key), <<>>))
    /\ UNCHANGED <<kp, enc, ck, derIn, derOut, bld, env>>

PubFromDer ==
    /\ last.op = "none"
    /\ \E der \in DerInputs :
        last' = Done("PublicKey.from_der", <<der>>, Out(PublicKeyFromDer(der), <<>>))
    /\ UNCHANGED <<kp, enc, ck, derIn, derOut, bld, env>>

PubFromPem ==
    /\ last.op = "none"
    /\ \E pem \in PemInputs :
        last' = Done("PublicKey.from_pem", <<pem>>, Out(PublicKeyFromPem(pem), <<>>))
    /\ UNCHANGED <<kp, enc, ck, derIn, derOut, bld, env>>

PubFromComposite ==
    /\ last.op = "none"
    /\ \E c \in CompositePairs :
        last' = Done("PublicKey.from_composite", <<c>>, Out(PublicKeyFromComposite(c), <<>>))
    /\ UNCHANGED <<kp, enc, ck, derIn, derOut, bld, env>>

SkConstructors ==
    {"PrivateKey.new", "PrivateKey.from_der", "PrivateKey.from_pem",
     "PrivateKey.from_file", "PrivateKey.from_composite"}
PubConstructors ==
    {"PublicKey.new", "PublicKey.from_der", "PublicKey.from_pem",
     "PublicKey.from_composite"}

\* a private key object is at hand, a public key object is at hand
HasSk == last.op \in SkConstructors /\ last.out.ok
HasPub == last.op \in PubConstructors /\ last.out.ok

SkSign ==
    /\ HasSk
    /\ \E data \in DsaMessages :
        last' = Done("PrivateKey.sign", <<last.out.val, data>>,
                     PrivateKeySign(last.out.val, data))
    /\ UNCHANGED <<kp, enc, ck, derIn, derOut, bld, env>>

SkDecap ==
    /\ HasSk
    /\ \E ct \in {enc.ct, Junk(XWING_CT_LEN - 1)} :
        last' = Done("PrivateKey.decap", <<last.out.val, ct>>,
                     PrivateKeyDecap(last.out.val, ct))
    /\ UNCHANGED <<kp, enc, ck, derIn, derOut, bld, env>>

SkVerifyingKey ==
    /\ HasSk
    /\ last' = Done("verifying_key", <<last.out.val>>, VerifyingKey(last.out.val))
    /\ UNCHANGED <<kp, enc, ck, derIn, derOut, bld, env>>

SkToPem ==
    /\ HasSk
    /\ last' = Done("PrivateKey.to_pem", <<last.out.val>>,
                     Out(PrivateKeyToPem(last.out.val), <<>>))
    /\ UNCHANGED <<kp, enc, ck, derIn, derOut, bld, env>>

PubVerify ==
    /\ HasPub
    /\ \E message \in DsaMessages,
          signature \in {DsaSig("MlDsa44", 1, "m0"), Junk(SIG_LEN("MlDsa44") - 1)} :
        last' = Done("PublicKey.verify",
                     <<last.out.val.oid, last.out.val.key, message, signature>>,
                     PublicKeyVerify(last.out.val.oid, last.out.val.key, message, signature))
    /\ UNCHANGED <<kp, enc, ck, derIn, derOut, bld, env>>

PubEncap ==
    /\ HasPub
    /\ \E coin \in Coins :
        last' = Done("PublicKey.encap", <<last.out.val.oid, last.out.val.key>>,
                     PublicKeyEncap(last.out.val.oid, last.out.val.key, coin))
    /\ UNCHANGED <<kp, enc, ck, derIn, derOut, bld, env>>

PubToPem ==
    /\ HasPub
    /\ last' = Done("PublicKey.to_pem", <<last.out.val>>,
                     Out(PublicKeyToPem(last.out.val), <<>>))
    /\ UNCHANGED <<kp, enc, ck, derIn, derOut, bld, env>>

\* the round trips start from a key parsed from PEM; their argument is the
\* PEM text and the key parsed from it
SkReencode ==
    /\ last.op = "PrivateKey.from_pem" /\ last.out.ok
    /\ last' = Done("sk_serialization", <<last.arg[1], last.out.val>>,
                    Out(SkSerialization(last.out.val), <<>>))
    /\ UNCHANGED <<kp, enc, ck, derIn, derOut, bld, env>>

SkComposite ==
    /\ last.op = "PrivateKey.from_pem" /\ last.out.ok
    /\ last' = Done("composite_private_key", <<last.arg[1], last.out.val>>,
                    Out(SkThroughComposite(last.out.val), <<>>))
    /\ UNCHANGED <<kp, enc, ck, derIn, derOut, bld, env>>

PubComposite ==
    /\ last.op = "PublicKey.from_pem" /\ last.out.ok
    /\ last' = Done("composite_public_key", <<last.arg[1], last.out.val>>,
                    Out(PubThroughComposite(last.out.val), <<>>))
    /\ UNCHANGED <<kp, enc, ck, derIn, derOut, bld, env>>

InitKeys ==
    /\ kp = KeyOf(XWingKeyGenWithRng(RandBytes(1)))
    /\ enc = EncOf(kp.pk, XWingEncap(kp.pk, 1))
    /\ last = NoCall
    /\ ck = NoComposite
    /\ derIn = NoInput
    /\ derOut = NoDecode
    /\ bld = NoBuilder
    /\ env = NoEnvelope

NextKeys ==
    \/ SkNew \/ SkFromDer \/ SkFromPem \/ SkFromFile \/ SkFromComposite
    \/ PubNew \/ PubFromDer \/ PubFromPem \/ PubFromComposite
    \/ SkSign \/ SkDecap \/ SkVerifyingKey \/ SkToPem
    \/ PubVerify \/ PubEncap \/ PubToPem
    \/ SkReencode \/ SkComposite \/ PubComposite

SpecKeys == InitKeys /\ [][NextKeys]_vars


-----------------------------------------------------------------------------
(* Properties of the key objects.                                          *)

\* no algorithm was resolved or run by the last call
Unsupported == last.out = Err("UnsupportedOperation") /\ last.calls = <<>>

\* C21: a capability invoked on the wrong kind of key returns
\* Err(UnsupportedOperation) before any algorithm is resolved or run: sign
\* and verify on a key whose OID is not a DSA OID, encap and decap on a key
\* whose OID is not a KEM OID.
C21_WrongKindUnsupported ==
    /\ (last.op = "PrivateKey.sign" /\ ~is_dsa_oid(last.arg[1].oid)) => Unsupported
    /\ (last.op = "PublicKey.verify" /\ ~is_dsa_oid(last.arg[1])) => Unsupported
    /\ (last.op = "PublicKey.encap" /\ ~is_kem_oid(last.arg[1])) => Unsupported
    /\ (last.op = "PrivateKey.decap" /\ ~is_kem_oid(last.arg[1].oid)) => Unsupported

\* the three capabilities whose kind check is the one the claim names
SignVerifyEncapKindChecked ==
    /\ (last.op = "PrivateKey.sign" /\ ~is_dsa_oid(last.arg[1].oid)) => Unsupported
    /\ (last.op = "PublicKey.verify" /\ ~is_dsa_oid(last.arg[1])) => Unsupported
    /\ (last.op = "PublicKey.encap" /\ ~is_kem_oid(last.arg[1])) => Unsupported

\* C22: no operation on a PrivateKey or PublicKey ends by panicking;
\* verifying_key on a private key that is not a DSA key, or whose key
\* material is malformed, returns a value or a typed error.
C22_NoPanic == last.out # Panic

\* C29: every key object a constructor returns carries a registered KEM or
\* DSA OID, and its is_composite flag is true exactly when that OID is a
\* composite OID.
C29_ConstructedOidRegistered ==
    (HasSk \/ HasPub)
        => /\ is_valid_kem_or_dsa_oid(last.out.val.oid)
           /\ last.out.val.is_composite = is_composite_kem_or_dsa_oid(last.out.val.oid)

\* the constructors that check the OID
CheckedConstructorsKeepOid ==
    ((HasSk \/ HasPub) /\ last.op \notin {"PrivateKey.from_composite", "PublicKey.from_composite"})
        => /\ is_valid_kem_or_dsa_oid(last.out.val.oid)
           /\ last.out.val.is_composite = is_composite_kem_or_dsa_oid(last.out.val.oid)


\* the encodings from_der rejects: an undecodable structure (empty,
\* truncated, not an encoding, the other structure) and an algorithm OID
\* that is not a registered KEM or DSA OID
RejectedDer(type, der) ==
    \/ ~DerDecode(type, der).ok
    \/ ~is_valid_kem_or_dsa_oid(DerDecode(type, der).val.oid)

\* the texts from_pem rejects: empty input, input without PEM headers or
\* with bad base64, another PEM tag, and contents from_der rejects
RejectedPem(tag, type, pem) ==
    \/ pem = <<>>
    \/ pem[1].src[1] = "text"
    \/ PemTag(pem) # tag
    \/ RejectedDer(type, pem[1].src[4])

\* the last call failed with the one error kind if its input is rejected,
\* and with no other error kind in any case
FailsClosed(rejected, err) ==
    /\ rejected => last.out = Err(err)
    /\ ~last.out.ok => last.out = Err(err)

\* C23: key parsing fails closed with one error kind: from_pem and from_der
\* return Err(InvalidPrivateKey) for a private key, Err(InvalidPublicKey)
\* for a public key, and no key object, for input without PEM headers, with
\* bad base64, empty input, another PEM tag, an undecodable structure and an
\* algorithm OID that is not a registered KEM or DSA OID.
C23_ParsingFailsClosed ==
    /\ last.op = "PrivateKey.from_der"
        => FailsClosed(RejectedDer("PrivateKeyInfo", last.arg[1]), "InvalidPrivateKey")
    /\ last.op = "PrivateKey.from_pem"
        => FailsClosed(RejectedPem("PRIVATE KEY", "PrivateKeyInfo", last.arg[1]),
                       "InvalidPrivateKey")
    /\ last.op = "PublicKey.from_der"
        => FailsClosed(RejectedDer("PublicKeyInfo", last.arg[1]), "InvalidPublicKey")
    /\ last.op = "PublicKey.from_pem"
        => FailsClosed(RejectedPem("PUBLIC KEY", "PublicKeyInfo", last.arg[1]),
                       "InvalidPublicKey")

\* a well-formed PEM private key with an unregistered algorithm is rejected
C23_Witness ==
    /\ last.op = "PrivateKey.from_pem"
    /\ PemParse(last.arg[1]).ok
    /\ PemTag(last.arg[1]) = "PRIVATE KEY"
    /\ DerDecode("PrivateKeyInfo", PemParse(last.arg[1]).val).ok
    /\ DerDecode("PrivateKeyInfo", PemParse(last.arg[1]).val).val.oid = OID_UNKNOWN
    /\ last.out = Err("InvalidPrivateKey")


\* a PEM text in the form to_pem writes: LF line endings, and a
\* PrivateKeyInfo or PublicKeyInfo without algorithm parameters and, for a
\* private key, without the public key
AsWritten(pem, type) ==
    /\ Len(pem[1].src) = 4
    /\ DerDecode(type, pem[1].src[4]).val.parameters = "None"
    /\ type = "PrivateKeyInfo" => DerDecode(type, pem[1].src[4]).val.public_key = "None"

\* the key read back and the key it was written from agree
SameSk(k, k2) == k2.oid = k.oid /\ k2.private_key = k.private_key

-----------------------------------------------------------------------------
(* CertValidity::new (cert_builder.rs).  Instants are small integers; an   *)
(* RFC 3339 text is a local time with its offset from UTC, or it is no     *)
(* date.  The clock is read where the code reads it: once for the check of *)
(* not_after and, when no not_before is given, once more.                  *)

\* the instants of the model, and those UtcTime can hold (1950 to 2049)
Instants == 0..5
UtcTimeRange == 1..4

\* the texts a caller passes: dates with an offset, and texts that are none
Rfc3339(local, offset) == <<"rfc3339", local, offset>>
DateTexts ==
    {Rfc3339(t, o) : t \in Instants, o \in {0, 1}} \cup {<<"text", "tomorrow">>}

\* DateTime::parse_from_rfc3339 and from_utc_datetime(naive_utc())
ParseFromRfc3339(text) ==
    IF text[1] = "rfc3339" THEN Ok(text[2] - text[3]) ELSE Err("parse")

\* CertValidity::date_time_to_asn
date_time_to_asn(time) ==
    IF time \in UtcTimeRange THEN Ok(<<"UtcTime", time>>) ELSE Err("range")

\* the branch of new for a given not_before
ValidityFrom(not_before, not_after, not_after_dt) ==
    IF ~ParseFromRfc3339(not_before).ok THEN Err("InvalidNotBefore")
    ELSE IF ParseFromRfc3339(not_before).val > not_after THEN Err("InvalidNotBefore")
    ELSE IF ~date_time_to_asn(ParseFromRfc3339(not_before).val).ok
    THEN Err("InvalidNotBefore")
    ELSE Ok([not_before |-> date_time_to_asn(ParseFromRfc3339(not_before).val).val,
             not_after |-> not_after_dt])

\* the branch of new without not_before; now is the second reading of the
\* clock
ValidityFromNow(now, not_after, not_after_dt) ==
    IF now > not_after THEN Err("InvalidNotAfter")
    ELSE IF ~date_time_to_asn(now).ok THEN Err("InvalidNotBefore")
    ELSE Ok([not_before |-> date_time_to_asn(now).val, not_after |-> not_after_dt])

\* CertValidity::new; not_before is None or Some of a text, now1 and now2
\* are the readings of the clock
CertValidityNew(not_before, not_after, now1, now2) ==
    IF ~ParseFromRfc3339(not_after).ok THEN Err("InvalidNotAfter")
    ELSE IF ParseFromRfc3339(not_after).val <= now1 THEN Err("InvalidNotAfter")
    ELSE IF ~date_time_to_asn(ParseFromRfc3339(not_after).val).ok
    THEN Err("InvalidNotAfter")
    ELSE IF not_before.some
    THEN ValidityFrom(not_before.text, ParseFromRfc3339(not_after).val,
                      date_time_to_asn(ParseFromRfc3339(not_after).val).val)
    ELSE ValidityFromNow(now2, ParseFromRfc3339(not_after).val,
                         date_time_to_asn(ParseFromRfc3339(not_after).val).val)

None == [some |-> FALSE]
Some(text) == [some |-> TRUE, text |-> text]

\* the readings of the clock: the present is within the range of UtcTime,
\* and the clock does not run backwards
ClockReadings == {<<a, b>> \in (2..3) \X (2..4) : a <= b /\ b <= a + 1}

ValidityNew ==
    /\ last.op = "none"
    /\ \E not_before \in {None} \cup {Some(t) : t \in DateTexts},
          not_after \in DateTexts, now \in ClockReadings :
        last' = Done("CertValidity.new", <<not_before, not_after, now[1], now[2]>>,
                     Out(CertValidityNew(not_before, not_after, now[1], now[2]), <<>>))
    /\ UNCHANGED <<kp, enc, ck, derIn, derOut, bld, env>>

InitValidity ==
    /\ kp = NoKey
    /\ enc = NoEnc
    /\ last = NoCall
    /\ ck = NoComposite
    /\ derIn = NoInput
    /\ derOut = NoDecode
    /\ bld = NoBuilder
    /\ env = NoEnvelope

NextValidity == ValidityNew

SpecValidity == InitValidity /\ [][NextValidity]_vars

\* the errors the claim allows for a call: InvalidNotBefore when not_before
\* is given and is no date or is later than the current time,
\* InvalidNotAfter when not_after is no date or is not later than the
\* current time
ClaimedErrors(not_before, not_after, now) ==
    {e \in {"InvalidNotBefore"} :
        /\ not_before.some
        /\ \/ ~ParseFromRfc3339(not_before.text).ok
           \/ ParseFromRfc3339(not_before.text).val > now}
    \cup
    {e \in {"InvalidNotAfter"} :
        \/ ~ParseFromRfc3339(not_after).ok
        \/ ParseFromRfc3339(not_after).val <= now}

\* C25: CertValidity::new returns Err(InvalidNotBefore) when the given
\* not-before date is later than the current time and Err(InvalidNotAfter)
\* when the not-after date is not later than the current time; an
\* unparsable not-before / not-after gives InvalidNotBefore /
\* InvalidNotAfter.  When both dates are at fault either error counts.
C25_ValidityErrors ==
    (last.op = "CertValidity.new"
        /\ ClaimedErrors(last.arg[1], last.arg[2], last.arg[3]) # {})
        => /\ ~last.out.ok
           /\ last.out.err \in ClaimedErrors(last.arg[1], last.arg[2], last.arg[3])

\* the part of C25 about not_after alone
NotAfterChecked ==
    (last.op = "CertValidity.new"
        /\ "InvalidNotAfter" \in ClaimedErrors(last.arg[1], last.arg[2], last.arg[3]))
        => last.out = Err("InvalidNotAfter")


-----------------------------------------------------------------------------
(* The state machine of MlDsaManager (src/dsa/ml_dsa.rs): a caller that    *)
(* generates key pairs and signs, verifies and derives public keys with    *)
(* managers of every DSA type.  kp is the last key pair generated, with    *)
(* the manager that generated it; last is the last call.                   *)

\* the managers MlDsaManager::new gives, one per DSA type
MlDsaManagers == {MlDsaManagerNew(DsaTypeAll[i]).val : i \in 1..Len(DsaTypeAll)}

\* kp after a key generation
DsaKeyOf(dsa, o) ==
    IF o.res.ok
    THEN [has |-> TRUE, dsa |-> dsa, pk |-> o.res.val[1], sk |-> o.res.val[2],
          calls |-> o.calls]
    ELSE kp

\* the secret keys, public keys and signatures a caller may hand over: the
\* pair's own, and byte strings of the right and of a wrong length
DsaSkInputs(dsa) ==
    {<<>>, Junk(SK_LEN(dsa.dsa_type)), Junk(SK_LEN(dsa.dsa_type) + 1)}
    \cup (IF kp.has THEN {kp.sk} ELSE {})
DsaPkInputs(dsa) ==
    {Junk(PK_LEN(dsa.dsa_type)), Junk(PK_LEN(dsa.dsa_type) - 1)}
    \cup (IF kp.has THEN {kp.pk} ELSE {})
DsaSignatureInputs(dsa) ==
    {Junk(SIG_LEN(dsa.dsa_type)), Junk(SIG_LEN(dsa.dsa_type) + 1)}
    \cup (IF last.op = "sign" /\ last.out.ok THEN {last.out.val} ELSE {})

MlDsaKeyGen ==
    \E dsa \in MlDsaManagers, entropy \in Seeds :
        LET o == MlDsaManagerKeyGen(dsa, entropy)
        IN  /\ kp' = DsaKeyOf(dsa, o)
            /\ last' = Done("key_gen", <<dsa>>, o)
            /\ UNCHANGED <<enc, ck, derIn, derOut, bld, env>>

MlDsaKeyGenWithRng ==
    \E dsa \in MlDsaManagers, rnd \in {Ok(i) : i \in Seeds} \cup {Err("rng")} :
        LET o == MlDsaManagerKeyGenWithRng(dsa, rnd)
        IN  /\ kp' = DsaKeyOf(dsa, o)
            /\ last' = Done("key_gen_with_rng", <<dsa>>, o)
            /\ UNCHANGED <<enc, ck, derIn, derOut, bld, env>>

MlDsaSign ==
    \E dsa \in MlDsaManagers, msg \in DsaMessages :
        \E sk \in DsaSkInputs(dsa) :
            /\ last' = Done("sign", <<dsa, sk, msg>>, MlDsaManagerSign(dsa, sk, msg))
            /\ UNCHANGED <<kp, enc, ck, derIn, derOut, bld, env>>

MlDsaVerify ==
    \E dsa \in MlDsaManagers, msg \in DsaMessages :
        \E pk \in DsaPkInputs(dsa), signature \in DsaSignatureInputs(dsa) :
            /\ last' = Done("verify", <<dsa, pk, msg, signature>>,
                            MlDsaManagerVerify(dsa, pk, msg, signature))
            /\ UNCHANGED <<kp, enc, ck, derIn, derOut, bld, env>>

MlDsaGetPublicKey ==
    \E dsa \in MlDsaManagers :
        \E sk \in DsaSkInputs(dsa) :
            /\ last' = Done("get_public_key", <<dsa, sk>>, MlDsaManagerGetPublicKey(dsa, sk))
            /\ UNCHANGED <<kp, enc, ck, derIn, derOut, bld, env>>

InitMlDsa ==
    /\ kp = NoKey
    /\ enc = NoEnc
    /\ last = NoCall
    /\ ck = NoComposite
    /\ derIn = NoInput
    /\ derOut = NoDecode
    /\ bld = NoBuilder
    /\ env = NoEnvelope

NextMlDsa ==
    \/ MlDsaKeyGen \/ MlDsaKeyGenWithRng
    \/ MlDsaSign \/ MlDsaVerify \/ MlDsaGetPublicKey

SpecMlDsa == InitMlDsa /\ [][NextMlDsa]_vars

\* the last call verified, with the manager and the public key of the pair,
\* a message and the signature that sign gave for it under the pair's
\* secret key
HonestVerify ==
    /\ last.op = "verify"
    /\ kp.has
    /\ last.arg[1] = kp.dsa
    /\ last.arg[2] = kp.pk
    /\ MlDsaManagerSign(kp.dsa, kp.sk, last.arg[3]).res = Ok(last.arg[4])

\* C26: for each of ML-DSA-44, ML-DSA-65 and ML-DSA-87, every key pair
\* (pk, sk) from key_gen or key_gen_with_rng and every message m,
\* verify(pk, m, sign(sk, m)) returns Ok(true), and get_public_key(sk)
\* returns pk.
C26_SignVerifyRoundTrip ==
    /\ kp.has => /\ kp.dsa.dsa_type \in MlDsaTypes
                 /\ \A m \in DsaMessages : MlDsaManagerSign(kp.dsa, kp.sk, m).res.ok
    /\ HonestVerify => last.out = Ok(TRUE)
    /\ (last.op = "get_public_key" /\ kp.has /\ last.arg = <<kp.dsa, kp.sk>>)
        => last.out = Ok(kp.pk)

\* a pair of ML-DSA-87 signed and verified
C26_Witness ==
    /\ HonestVerify
    /\ kp.dsa.dsa_type = "MlDsa87"
    /\ last.out = Ok(TRUE)

\* C27: length validation precedes every cryptographic step and selects
\* the error: sign and get_public_key with a secret key whose length is
\* not SK_LEN return Err(InvalidPrivateKey); verify with a public key of
\* the wrong length returns Err(InvalidPublicKey), whatever the length of
\* the signature; verify with a public key of the right length and a
\* signature whose length is not SIG_LEN returns Err(InvalidSignature);
\* none of these calls reaches key decoding, signing or verification.
C27_LengthsCheckedFirst ==
    /\ (last.op \in {"sign", "get_public_key"}
            /\ last.arg[1].dsa_type \in MlDsaTypes
            /\ ByteLen(last.arg[2]) # SK_LEN(last.arg[1].dsa_type))
        => (last.out = Err("InvalidPrivateKey") /\ last.calls = <<>>)
    /\ (last.op = "verify"
            /\ last.arg[1].dsa_type \in MlDsaTypes
            /\ ByteLen(last.arg[2]) # PK_LEN(last.arg[1].dsa_type))
        => (last.out = Err("InvalidPublicKey") /\ last.calls = <<>>)
    /\ (last.op = "verify"
            /\ last.arg[1].dsa_type \in MlDsaTypes
            /\ ByteLen(last.arg[2]) = PK_LEN(last.arg[1].dsa_type)
            /\ ByteLen(last.arg[4]) # SIG_LEN(last.arg[1].dsa_type))
        => (last.out = Err("InvalidSignature") /\ last.calls = <<>>)

\* verify was handed a public key and a signature both of a wrong length
C27_Witness ==
    /\ last.op = "verify"
    /\ last.arg[1].dsa_type \in MlDsaTypes
    /\ ByteLen(last.arg[2]) # PK_LEN(last.arg[1].dsa_type)
    /\ ByteLen(last.arg[4]) # SIG_LEN(last.arg[1].dsa_type)
    /\ last.out = Err("InvalidPublicKey")


-----------------------------------------------------------------------------
(* The order of from_bytes_for_kem_recipient, and PublicKey::verify *)

\* C28: from_bytes_for_kem_recipient parses the ContentInfo, checks its
\* content type and parses the EnvelopedData before decryption is
\* attempted, so an input that fails one of these checks never reaches the
\* private key; an EnvelopedDataContent is returned only when decryption
\* succeeded, and then its content is the decrypted plaintext and its
\* version, originator info, recipient infos and unprotected attributes are
\* those of the parsed envelope.
C28_ParsedThenDecrypted ==
    IsRead =>
        /\ NotAnEnvelope => (~last.out.ok /\ last.calls = <<>>)
        /\ last.out.ok =>
            /\ ParseEnvelope(env.bytes).ok
            /\ DecryptKemri(env.bytes, ReaderKey, ReaderCert).res = Ok(last.out.val.content)
            /\ last.out.val.version = ParseEnvelope(env.bytes).val.version
            /\ last.out.val.originator_info = ParseEnvelope(env.bytes).val.originator_info
            /\ last.out.val.recip_infos = ParseEnvelope(env.bytes).val.recip_infos
            /\ last.out.val.unprotected_attrs = ParseEnvelope(env.bytes).val.unprotected_attrs

\* a recipient read an envelope that parses and whose content does not
\* decrypt: the private key was reached and nothing was returned
C28_Witness ==
    /\ ReaderIsRecipient
    /\ env.how = "corrupt content"
    /\ last.calls # <<>>
    /\ ~last.out.ok


\* the underlying verify of the last PublicKey::verify, by the manager of
\* the key's OID
UnderlyingVerify ==
    DsaManagerVerify(new_from_oid("DsaManager", last.arg[1]).val,
                     last.arg[2], last.arg[3], last.arg[4]).res

\* the key or the signature of the last PublicKey::verify is malformed for
\* the ML-DSA variant t
MalformedFor(t) ==
    \/ ByteLen(last.arg[2]) # PK_LEN(t)
    \/ ByteLen(last.arg[4]) # SIG_LEN(t)
    \/ ~PkDecodes(t, last.arg[2])

\* C30: PublicKey::verify on a key whose OID is a DSA OID that resolves
\* returns every failure of the underlying verify (wrong public-key
\* length, wrong signature length, undecodable public key) as Ok(false),
\* as it does a well-formed but invalid signature; the only errors verify
\* returns are UnsupportedOperation (non-DSA OID) and InvalidOid.
C30_VerifyFailureIsFalse ==
    last.op = "PublicKey.verify" =>
        /\ ~last.out.ok => last.out.err \in {"UnsupportedOperation", "InvalidOid"}
        /\ last.out = Err("UnsupportedOperation") <=> ~is_dsa_oid(last.arg[1])
        /\ last.arg[1] \in DsaOids =>
            /\ last.out.ok
            /\ last.out.val <=> UnderlyingVerify = Ok(TRUE)
            /\ \A t \in MlDsaTypes :
                (last.arg[1] = get_oid(t) /\ MalformedFor(t)) => last.out = Ok(FALSE)

\* verify with an ML-DSA-44 key one byte short
C30_Witness ==
    /\ last.op = "PublicKey.verify"
    /\ last.arg[1] = OID_MLDSA44
    /\ ByteLen(last.arg[2]) = PK_LEN("MlDsa44") - 1
    /\ UnderlyingVerify = Err("InvalidPublicKey")
    /\ last.out = Ok(FALSE)

====
